---- MODULE Spec2Model ----
(***************************************************************************)
(* A model of the dex2oat wrapper of LSPosed: the hook library that        *)
(* installs itself in dex2oat and rewrites the OAT header's key-value      *)
(* store (oat_hook.cpp, oat.cpp) and the launcher that re-executes dex2oat *)
(* through the linker (dex2oat.cpp); and of the Zygisk module: its         *)
(* lifecycle callbacks (module.cpp) and the Binder bridge they use         *)
(* (ipc_bridge.cpp).                                                       *)
(*                                                                         *)
(* Memory is a function from offsets (0 is the base pointer handed to      *)
(* SpoofKeyValueStore) to bytes. The record is the first                   *)
(* key_value_store_size_ bytes; the bytes after it are the host's          *)
(* adjacent memory, and offsets outside DOMAIN mem are unmapped.           *)
(*                                                                         *)
(* Strings are sequences of bytes. The program's string constants are      *)
(* scaled down to one or two bytes each, keeping their order and the       *)
(* difference between "contains the flag" and "is the flag".               *)
(***************************************************************************)
EXTENDS Integers, Sequences, FiniteSets, TLC

VARIABLES
    mem,                    \* the host's memory, offset -> byte
    key_value_store_size_,  \* the header's key_value_store_size_ field
    g_binary_path,          \* the original binary path (oat_hook.cpp:24)
    pre_mem,                \* mem as it was when the last hook was entered
    last,                   \* what the last hook call did
    sv,                     \* process_cmd: the command line given
    cmd_result,             \* process_cmd: the string returned
    cmd_pc,                 \* process_cmd: "idle", "called" or "returned"
    env_cmd,                \* initialize: what getenv("DEX2OAT_CMD") returns
    maps,                   \* initialize: what lsplt::MapInfo::Scan() returns
    dev,                    \* initialize: the local dev
    inode,                  \* initialize: the local inode
    init_pc,                \* initialize: the position in it, "done" after it
    pending,                \* lsplt: the hooks registered and not yet committed
    hooks,                  \* lsplt: the hooks installed in dex2oat's PLT
    lsplt_calls,            \* the calls of lsplt that initialize has made
    hook_trace,             \* what the last hook call called, in its order
    argv,                   \* launcher: main's argv, index 0 .. argc-1
    is_lp64,                \* launcher: the build, __LP64__ defined or not
    pid,                    \* launcher: getpid()
    environ,                \* launcher: the environment, name -> value
    fd_table,               \* launcher: the open descriptors, fd -> what it is
    sock_fd,                \* launcher: main's sock_fd
    stock_fd,               \* launcher: main's stock_fd
    hooker_fd,              \* launcher: main's hooker_fd
    msg,                    \* launcher: recv_fds' msg and cmsgbuf after recvmsg
    exec_argv,              \* launcher: main's exec_argv
    pc,                     \* launcher: the position in main
    conn,                   \* launcher: the connection main is at, 1 or 2
    exit_status,            \* launcher: the value main returned
    syscalls,               \* launcher: the system calls made so far
    delivered,              \* launcher: the descriptors the peer passed
    should_inject_,         \* module: VectorModule::should_inject_
    is_manager_app_,        \* module: VectorModule::is_manager_app_
    allow_unload,           \* module: DLCLOSE_MODULE_LIBRARY was set
    inject_class_loader_,   \* module: Context::inject_class_loader_ is set
    obfuscation_map_,       \* module: ConfigImpl::obfuscation_map_
    args,                   \* module: the arguments of the callback under way
    zpc,                    \* module: the position in the lifecycle
    events,                 \* module: what the post callback did, in its order
    returned,               \* bridge: what the last call of the bridge returned
    initialized_,           \* bridge: IPCBridge::initialized_
    cached,                 \* bridge: the cached JNI references that are set
    attempt,                \* bridge: RequestSystemServerBinder's i
    g_last_failed_id,       \* bridge: the atomic of ipc_bridge.cpp:19
    threads,                \* bridge: the Binder threads inside the hook
    calls                   \* bridge: the hooked calls that have returned

install_vars == <<env_cmd, maps, dev, inode, init_pc, pending, hooks, lsplt_calls>>

hook_vars == <<mem, key_value_store_size_, g_binary_path, pre_mem, last,
               sv, cmd_result, cmd_pc, install_vars, hook_trace>>

launcher_vars == <<argv, is_lp64, pid, environ, fd_table, sock_fd, stock_fd,
                   hooker_fd, msg, exec_argv, pc, conn, exit_status, syscalls,
                   delivered>>

module_vars == <<should_inject_, is_manager_app_, allow_unload,
                 inject_class_loader_, obfuscation_map_, args, zpc, events>>

bridge_vars == <<returned, initialized_, cached, attempt>>

binder_vars == <<g_last_failed_id, threads, calls>>

zygisk_vars == <<module_vars, bridge_vars, binder_vars>>

vars == <<hook_vars, launcher_vars, zygisk_vars>>

(***************************************************************************)
(* Bounds of the model.                                                    *)
(***************************************************************************)
MaxRawSize == 5    \* the longest record of arbitrary bytes
MaxEntries == 2    \* the most entries of a packed record
MaxPad == 1        \* the most zero bytes after a packed record's entries
MaxPathLen == 2    \* the longest g_binary_path
MaxCmdLen == 7     \* the longest command line given to process_cmd alone
MaxArgc == 3       \* the largest argc given to the launcher
MaxMaps == 2       \* the most mappings lsplt::MapInfo::Scan() returns

(***************************************************************************)
(* Bytes. NUL and SP are the two bytes the code names; F, K and P stand    *)
(* for the characters of the flag, of the keys and of the path, with the   *)
(* order of '-', 'd' and '/' kept where the code compares them.            *)
(***************************************************************************)
NUL == 0
SP == 32
F == 45
P == 47
A == 97
K == 100

Byte == {NUL, SP, F, K}

kParamToRemove == <<F>>
kDex2OatCmdLineKey == <<K>>
kApexVersionsKey == <<F, K>>
kNonDeterministicFieldsAndLengths == {kDex2OatCmdLineKey, kApexVersionsKey}
kMaxStoreSize == 65536

NotFound == -1

Min(a, b) == IF a < b THEN a ELSE b

(***************************************************************************)
(* process_cmd (oat_hook.cpp:32-65).                                       *)
(***************************************************************************)
RECURSIVE SplitBySpace(_, _, _, _)
SplitBySpace(s, i, tokens, current) ==
    IF i > Len(s)
    THEN IF current # <<>> THEN Append(tokens, current) ELSE tokens
    ELSE IF s[i] = SP
         THEN IF current # <<>>
              THEN SplitBySpace(s, i + 1, Append(tokens, current), <<>>)
              ELSE SplitBySpace(s, i + 1, tokens, <<>>)
         ELSE SplitBySpace(s, i + 1, tokens, Append(current, s[i]))

\* a variant that takes the second token for a part of the command path
ReplaceCommandPath_TwoTokens(tokens, new_cmd_path) ==
    IF Len(tokens) >= 2 THEN <<new_cmd_path>> \o Tail(Tail(tokens))
    ELSE IF tokens # <<>> THEN <<new_cmd_path>> ELSE tokens

ReplaceCommandPath(tokens, new_cmd_path) ==
    IF tokens # <<>> THEN [tokens EXCEPT ![1] = new_cmd_path] ELSE tokens

\* a variant that removes nothing
RemoveInjectedParam_Keep(tokens) == tokens

RemoveInjectedParam(tokens) ==
    SelectSeq(tokens, LAMBDA t : t # kParamToRemove)

RECURSIVE JoinTokens(_, _)
JoinTokens(tokens, i) ==
    IF i > Len(tokens) THEN <<>>
    ELSE tokens[i] \o (IF i # Len(tokens) THEN <<SP>> ELSE <<>>)
                   \o JoinTokens(tokens, i + 1)

process_cmd(s, new_cmd_path) ==
    JoinTokens(RemoveInjectedParam(
                   ReplaceCommandPath(SplitBySpace(s, 1, <<>>, <<>>), new_cmd_path)), 1)

\* std::string_view::find(kParamToRemove) != npos
ContainsParam(value) ==
    \E i \in 1 .. (Len(value) - Len(kParamToRemove) + 1) :
        SubSeq(value, i, i + Len(kParamToRemove) - 1) = kParamToRemove

(***************************************************************************)
(* Memory helpers.                                                         *)
(***************************************************************************)
Mapped(m) == DOMAIN m

\* the bytes of m at offsets [a, b), as a string
BytesAt(m, a, b) == [i \in 1 .. (b - a) |-> m[a + i - 1]]

\* std::memchr(from, 0, end - from): the first NUL in [from, end)
RECURSIVE MemChr(_, _, _)
MemChr(m, from, end) ==
    IF from >= end THEN NotFound
    ELSE IF m[from] = NUL THEN from
    ELSE MemChr(m, from + 1, end)

\* memcpy/memset of the string bytes to offset at; a write to an unmapped
\* offset faults
WriteBytes(m, at, bytes) ==
    [mem   |-> [o \in DOMAIN m |->
                   IF at <= o /\ o < at + Len(bytes) THEN bytes[o - at + 1] ELSE m[o]],
     wr    |-> at .. (at + Len(bytes) - 1),
     fault |-> \E o \in at .. (at + Len(bytes) - 1) : o \notin Mapped(m)]

Zeros(n) == [i \in 1 .. n |-> NUL]

(***************************************************************************)
(* std::map<std::string, std::string>: a function from keys to values,     *)
(* iterated in ascending key order (std::string's operator<).              *)
(***************************************************************************)
EmptyMap == [k \in {} |-> <<>>]

MapAssign(key_values, key, value) ==
    [k \in DOMAIN key_values \cup {key} |-> IF k = key THEN value ELSE key_values[k]]

StringLess(a, b) ==
    \/ \E i \in 1 .. Min(Len(a), Len(b)) :
           a[i] < b[i] /\ \A j \in 1 .. (i - 1) : a[j] = b[j]
    \/ Len(a) < Len(b) /\ \A j \in 1 .. Len(a) : a[j] = b[j]

FirstKey(keys) == CHOOSE k \in keys : \A j \in keys \ {k} : StringLess(k, j)

(***************************************************************************)
(* WriteKeyValueStore (oat_hook.cpp:70-82): key, NUL, value, NUL for each  *)
(* entry of the map in its iteration order, from the base pointer on.      *)
(***************************************************************************)
RECURSIVE SerializeKeys(_, _)
SerializeKeys(key_values, keys) ==
    IF keys = {} THEN <<>>
    ELSE LET k == FirstKey(keys)
         IN  k \o <<NUL>> \o key_values[k] \o <<NUL>>
               \o SerializeKeys(key_values, keys \ {k})

WriteKeyValueStore(key_values, m) ==
    WriteBytes(m, 0, SerializeKeys(key_values, DOMAIN key_values))

\* IsNonDeterministic (oat_hook.cpp:85-89)
IsNonDeterministic(key) == key \in kNonDeterministicFieldsAndLengths

(***************************************************************************)
(* SpoofKeyValueStore (oat_hook.cpp:96-163).                               *)
(***************************************************************************)
\* a variant that looks at the byte after the terminator wherever it lies
HasPadding_NoEndCheck(m, end, key, value_end) ==
    m[value_end + 1] = NUL /\ IsNonDeterministic(key)

\* line 120: the byte after the value's terminator is read only when it
\* lies before end
HasPadding(m, end, key, value_end) ==
    value_end + 1 < end /\ m[value_end + 1] = NUL /\ IsNonDeterministic(key)

\* lines 122-123
Eligible(key, value) == key = kDex2OatCmdLineKey /\ ContainsParam(value)

\* lines 151-155: while (*ptr == '\0') ptr++, with no bound on ptr
RECURSIVE SkipZeros(_, _)
SkipZeros(m, ptr) ==
    IF ptr \notin Mapped(m) THEN ptr
    ELSE IF m[ptr] # NUL THEN ptr
    ELSE SkipZeros(m, ptr + 1)

SkipPadding(m, ptr) ==
    LET stop == SkipZeros(m, ptr)
    IN  [ptr |-> stop, rd |-> ptr .. stop, fault |-> stop \notin Mapped(m)]

LoopExit(exit, trunc, new_store, modified, rd, value_start, value_end, cleaned_cmd) ==
    [exit |-> exit, trunc |-> trunc, new_store |-> new_store, modified |-> modified,
     rd |-> rd, value_start |-> value_start, value_end |-> value_end,
     cleaned_cmd |-> cleaned_cmd]

\* lines 105-156: the parsing loop, from the cursor ptr on
RECURSIVE ParseLoop(_, _, _, _, _, _, _)
ParseLoop(m, end, path, ptr, new_store, modified, rd) ==
    IF ptr >= end
    THEN LoopExit("end", "none", new_store, modified, rd, 0, 0, <<>>)
    ELSE IF m[ptr] = NUL
    THEN LoopExit("end", "none", new_store, modified, rd \cup {ptr}, 0, 0, <<>>)
    ELSE
    LET key_end == MemChr(m, ptr, end) IN
    IF key_end = NotFound
    THEN LoopExit("end", "key", new_store, modified, rd \cup (ptr .. (end - 1)), 0, 0, <<>>)
    ELSE
    LET key == BytesAt(m, ptr, key_end)
        value_start == key_end + 1
    IN
    IF value_start >= end
    THEN LoopExit("end", "novalue", new_store, modified, rd \cup (ptr .. key_end), 0, 0, <<>>)
    ELSE
    LET value_end == MemChr(m, value_start, end) IN
    IF value_end = NotFound
    THEN LoopExit("end", "value", new_store, modified, rd \cup (ptr .. (end - 1)), 0, 0, <<>>)
    ELSE
    LET value == BytesAt(m, value_start, value_end)
        has_padding == HasPadding(m, end, key, value_end)
        rd1 == rd \cup (ptr .. value_end)
                  \cup (IF value_end + 1 < end THEN {value_end + 1} ELSE {})
        cleaned_cmd == process_cmd(value, path)
        skip == SkipPadding(m, value_end + 1)
    IN
    IF Eligible(key, value) /\ has_padding
    THEN LoopExit("inplace", "none", new_store, modified, rd1,
                  value_start, value_end, cleaned_cmd)
    ELSE
    LET store1 == IF Eligible(key, value)
                  THEN MapAssign(new_store, key, cleaned_cmd)
                  ELSE MapAssign(new_store, key, value)
        modified1 == modified \/ Eligible(key, value)
    IN
    IF has_padding
    THEN IF skip.fault
         THEN LoopExit("fault", "none", store1, modified1, rd1 \cup skip.rd, 0, 0, <<>>)
         ELSE ParseLoop(m, end, path, skip.ptr, store1, modified1, rd1 \cup skip.rd)
    ELSE ParseLoop(m, end, path, value_end + 1, store1, modified1, rd1)

\* a variant of the copy without the std::min
InPlaceCopyLen_NoMin(cleaned_len, original_capacity) == cleaned_len

\* line 138: the number of bytes of the new command copied in place
InPlaceCopyLen(cleaned_len, original_capacity) == Min(cleaned_len, original_capacity)

\* lines 132-138: zero the value, then copy the new command over it
InPlaceEdit(m, value_start, value_end, cleaned_cmd) ==
    LET original_capacity == value_end - value_start
        zeroed == WriteBytes(m, value_start, Zeros(original_capacity))
        n      == InPlaceCopyLen(Len(cleaned_cmd), original_capacity)
        copied == WriteBytes(zeroed.mem, value_start, SubSeq(cleaned_cmd, 1, n))
    IN  [mem |-> copied.mem, wr |-> zeroed.wr \cup copied.wr,
         fault |-> zeroed.fault \/ copied.fault]

\* the outcome of one call: ret is the value returned, how the path taken,
\* mem the memory it leaves, wr and rd the offsets it wrote and read
SpoofResult(p, size_limit, how, ret, m, wr, fault) ==
    [size_limit |-> size_limit, trunc |-> p.trunc, rd |-> p.rd,
     new_store |-> p.new_store, value_start |-> p.value_start,
     value_end |-> p.value_end, cleaned_cmd |-> p.cleaned_cmd,
     how |-> how, ret |-> ret, mem |-> m, wr |-> wr, fault |-> fault]

\* (line 97 returns false on a null base pointer; both hooks pass the
\* address of the header's key_value_store_ array, which is never null)
SpoofKeyValueStore(m, size_limit, path) ==
    LET p == ParseLoop(m, size_limit, path, 0, EmptyMap, FALSE, {})
        e == InPlaceEdit(m, p.value_start, p.value_end, p.cleaned_cmd)
        w == WriteKeyValueStore(p.new_store, m)
    IN  IF p.exit = "fault"
        THEN SpoofResult(p, size_limit, "none", FALSE, m, {}, TRUE)
        ELSE IF p.exit = "inplace"
        THEN SpoofResult(p, size_limit, "inplace", TRUE, e.mem, e.wr, e.fault)
        ELSE IF p.modified
        THEN SpoofResult(p, size_limit, "rebuild", TRUE, w.mem, w.wr, w.fault)
        ELSE SpoofResult(p, size_limit, "none", FALSE, m, {}, FALSE)

\* a hook that did not call SpoofKeyValueStore
NoSpoof(m, size_limit) ==
    SpoofResult(LoopExit("end", "none", EmptyMap, FALSE, {}, 0, 0, <<>>),
                size_limit, "skipped", FALSE, m, {}, FALSE)

\* the record of a hook call kept in last
CallRecord(hook, r, size_ret, checksum) ==
    [hook |-> hook, size_ret |-> size_ret, checksum |-> checksum,
     size_limit |-> r.size_limit, trunc |-> r.trunc, rd |-> r.rd,
     new_store |-> r.new_store, value_start |-> r.value_start,
     value_end |-> r.value_end, cleaned_cmd |-> r.cleaned_cmd,
     how |-> r.how, ret |-> r.ret, wr |-> r.wr, fault |-> r.fault]

(***************************************************************************)
(* The host's original functions, which the hooks call.                    *)
(***************************************************************************)
\* old__ZNK3art9OatHeader20GetKeyValueStoreSizeEv: the header's size field
OriginalGetKeyValueStoreSize == key_value_store_size_

\* old__ZNK3art9OatHeader15ComputeChecksumEPj: an Adler-32 style sum of the
\* record's bytes as they are when it is called
RECURSIVE AdlerFrom(_, _, _, _)
AdlerFrom(bytes, i, a, b) ==
    IF i > Len(bytes) THEN b * 65536 + a
    ELSE AdlerFrom(bytes, i + 1, (a + bytes[i]) % 65521,
                   (b + ((a + bytes[i]) % 65521)) % 65521)

OriginalComputeChecksum(m, size) == AdlerFrom(BytesAt(m, 0, size), 1, 1, 0)

\* old__ZNK3art9OatHeader16GetKeyValueStoreEv: the address of the header's
\* key_value_store_ array, offset 0 of mem
OriginalGetKeyValueStore == 0

(***************************************************************************)
(* The installation of the hooks (oat_hook.cpp:206-254). The three hooks   *)
(* are named "size", "data" and "checksum" for the symbols                 *)
(* OatHeader::GetKeyValueStoreSize, GetKeyValueStore and ComputeChecksum.  *)
(* lsplt is a library outside the program: RegisterHook may refuse a       *)
(* registration, CommitHook installs whichever pending hooks it resolves   *)
(* in dex2oat's PLT and writes the original's address to the old_ pointer  *)
(* of each hook it installs, and reports success or failure.               *)
(***************************************************************************)
AllHooks == {"size", "data", "checksum"}

\* getenv("DEX2OAT_CMD"): NULL, or a string
NoEnv == [set |-> FALSE, value |-> <<>>]

EnvCmds == {NoEnv} \cup {[set |-> TRUE, value |-> v] : v \in {<<>>, <<A>>, <<A, A>>}}

\* line 230: "bin/dex2oat", scaled to the one byte of the path
kTargetFragment == <<P>>

\* info.path.find("bin/dex2oat") != std::string::npos
PathContainsTarget(path) ==
    \E i \in 1 .. (Len(path) - Len(kTargetFragment) + 1) :
        SubSeq(path, i, i + Len(kTargetFragment) - 1) = kTargetFragment

\* the paths of the mappings: a library, dex2oat, dex2oat under a directory
MapPaths == {<<A>>, <<P>>, <<A, P>>}

\* the i-th mapping of a scan: a file on device 8
MapInfo(path, i) == [path |-> path, dev |-> 8, inode |-> 10 + i]

MapScans ==
    UNION {{[i \in 1 .. n |-> MapInfo(paths[i], i)] : paths \in [1 .. n -> MapPaths]} :
           n \in 0 .. MaxMaps}

\* lines 229-238: the index of the first mapping whose path contains the
\* fragment, 0 when there is none
FirstTarget(ms) ==
    IF \E i \in DOMAIN ms : PathContainsTarget(ms[i].path)
    THEN CHOOSE i \in DOMAIN ms :
             /\ PathContainsTarget(ms[i].path)
             /\ \A j \in DOMAIN ms : PathContainsTarget(ms[j].path) => i <= j
    ELSE 0

\* a variant that goes on without a target
TargetMissing_Ignored(d) == FALSE

\* line 240
TargetMissing(d) == d = 0

\* a variant in which the path of the mapping comes first
BinaryPath_MappingFirst(env, found, path) ==
    IF found THEN path ELSE IF env.set THEN env.value ELSE <<>>

\* lines 220-223 and 233: g_binary_path after the scan
BinaryPath(env, found, path) ==
    LET from_env == IF env.set THEN env.value ELSE <<>>
    IN  IF found /\ from_env = <<>> THEN path ELSE from_env

LspltCall(fn, symbol, ok) == [fn |-> fn, symbol |-> symbol, ok |-> ok]

\* register_hook (lines 206-210): a failure is logged and nothing else
register_hook(state, symbol, ok) ==
    [pending |-> IF ok THEN state.pending \cup {symbol} ELSE state.pending,
     calls   |-> Append(state.calls, LspltCall("RegisterHook", symbol, ok))]

\* lsplt::CommitHook() (lines 250, 252)
CommitHook(state, resolved, ok) ==
    [pending |-> state.pending \ resolved,
     hooks   |-> state.hooks \cup resolved,
     calls   |-> Append(state.calls, LspltCall("CommitHook", "", ok))]

\* a variant that registers the checksum hook whatever the first commit
\* returned
FallbackNeeded_Always(commit_ok) == TRUE

\* line 250: if (!lsplt::CommitHook())
FallbackNeeded(commit_ok) == ~commit_ok

\* the hook is installed and the constructor has returned
Hooked(h) == init_pc = "done" /\ h \in hooks

\* the installation is over and has installed all three hooks
AllInstalled ==
    /\ env_cmd = NoEnv
    /\ maps = <<>>
    /\ dev = 0
    /\ inode = 0
    /\ init_pc = "done"
    /\ pending = {}
    /\ hooks = AllHooks
    /\ lsplt_calls = <<>>

\* the hook library is not loaded
InstallIdle ==
    /\ env_cmd = NoEnv
    /\ maps = <<>>
    /\ dev = 0
    /\ inode = 0
    /\ init_pc = "off"
    /\ pending = {}
    /\ hooks = {}
    /\ lsplt_calls = <<>>

(***************************************************************************)
(* What a hook call does, in its order: the originals it calls, the call   *)
(* of SpoofKeyValueStore (with 1 for true, 0 for false, -1 when it did not *)
(* return), and its own return.                                            *)
(***************************************************************************)
Ev(op, val) == [op |-> op, val |-> val]

SpoofEvent(r) ==
    IF r.how = "skipped" THEN <<>>
    ELSE <<Ev("SpoofKeyValueStore", IF r.fault THEN -1 ELSE IF r.ret THEN 1 ELSE 0)>>

(***************************************************************************)
(* The launcher's variables while the launcher is not the program run.     *)
(***************************************************************************)
\* msg and cmsgbuf of recv_fds (dex2oat.cpp:52-57) outside a call
NoMsg ==
    [rec |-> 0, msg_controllen |-> 0, cmsg_len |-> 0, cmsg_level |-> 0,
     cmsg_type |-> 0, data |-> 0, delivers |-> FALSE]

LauncherIdle ==
    /\ argv = <<>>
    /\ is_lp64 = FALSE
    /\ pid = 0
    /\ environ = <<>>
    /\ fd_table = <<>>
    /\ sock_fd = 0
    /\ stock_fd = 0
    /\ hooker_fd = 0
    /\ msg = NoMsg
    /\ exec_argv = <<>>
    /\ pc = "off"
    /\ conn = 0
    /\ exit_status = 0
    /\ syscalls = <<>>
    /\ delivered = {}

(***************************************************************************)
(* The Zygisk module's variables while the module is not the program run.  *)
(***************************************************************************)
ZygiskIdle ==
    /\ should_inject_ = FALSE
    /\ is_manager_app_ = FALSE
    /\ allow_unload = FALSE
    /\ inject_class_loader_ = FALSE
    /\ obfuscation_map_ = <<>>
    /\ args = <<>>
    /\ zpc = "off"
    /\ events = <<>>
    /\ returned = <<>>
    /\ initialized_ = FALSE
    /\ cached = {}
    /\ attempt = 0
    /\ g_last_failed_id = 0
    /\ threads = <<>>
    /\ calls = <<>>

(***************************************************************************)
(* The state after construction: a header whose record is either any       *)
(* bytes at all (a corrupt or truncated record included) or a few entries  *)
(* packed as the host writes them, with zero bytes after the last one;     *)
(* then the host's adjacent memory.                                        *)
(***************************************************************************)
\* the adjacent memory that is mapped: as long as the longest overflow of a
\* rebuild, which replaces one token of at least a byte by the path
AdjacentLen == MaxPathLen - 1

Paths == {[i \in 1 .. n |-> P] : n \in 1 .. MaxPathLen}

RawRecords == UNION {[1 .. n -> Byte] : n \in 0 .. MaxRawSize}

EntryKeys == {<<F>>, kDex2OatCmdLineKey}

EntryValues == {<<K>>, <<F>>, <<K, SP, F>>, <<K, SP, K, SP, F>>}

EntrySeqs == UNION {[1 .. n -> EntryKeys \X EntryValues] : n \in 0 .. MaxEntries}

RECURSIVE PackEntries(_, _)
PackEntries(entries, i) ==
    IF i > Len(entries) THEN <<>>
    ELSE entries[i][1] \o <<NUL>> \o entries[i][2] \o <<NUL>>
           \o PackEntries(entries, i + 1)

PackedRecords == {PackEntries(es, 1) \o Zeros(pad) : es \in EntrySeqs, pad \in 0 .. MaxPad}

Records == RawRecords \cup PackedRecords

NoCall == CallRecord("none", NoSpoof([o \in {} |-> NUL], 0), 0, 0)

InitCmdIdle == sv = <<>> /\ cmd_result = <<>> /\ cmd_pc = "idle"

Init ==
    /\ \E rec \in Records, adj \in [1 .. AdjacentLen -> {NUL, K}] :
           /\ key_value_store_size_ = Len(rec)
           /\ mem = [o \in 0 .. (Len(rec) + AdjacentLen - 1) |-> (rec \o adj)[o + 1]]
    /\ g_binary_path \in Paths
    /\ pre_mem = mem
    /\ last = NoCall
    /\ hook_trace = <<>>
    /\ InitCmdIdle
    /\ AllInstalled
    /\ LauncherIdle
    /\ ZygiskIdle

(***************************************************************************)
(* The hooks (oat_hook.cpp:169-202). A call that faulted ended the         *)
(* process.                                                                *)
(***************************************************************************)
Running == ~last.fault

\* new__ZNK3art9OatHeader20GetKeyValueStoreSizeEv (lines 169-173)
GetKeyValueStoreSizeHook ==
    /\ Running
    /\ cmd_pc = "idle"
    /\ Hooked("size")
    /\ pre_mem' = mem
    /\ last' = CallRecord("size", NoSpoof(mem, key_value_store_size_),
                          OriginalGetKeyValueStoreSize, 0)
    /\ hook_trace' = <<Ev("old_size", OriginalGetKeyValueStoreSize),
                       Ev("return", OriginalGetKeyValueStoreSize)>>
    /\ UNCHANGED <<mem, key_value_store_size_, g_binary_path, sv, cmd_result, cmd_pc>>
    /\ UNCHANGED install_vars
    /\ UNCHANGED launcher_vars
    /\ UNCHANGED zygisk_vars

\* a hook that called an old_ pointer that is still nullptr
NullCall(m) == [NoSpoof(m, 0) EXCEPT !.fault = TRUE]

\* new__ZNK3art9OatHeader16GetKeyValueStoreEv (lines 176-186); line 178
\* calls the old_ pointer of the size hook, which lsplt has set only if it
\* installed that hook
GetKeyValueStoreHook ==
    /\ Running
    /\ cmd_pc = "idle"
    /\ Hooked("data")
    /\ LET key_value_store == OriginalGetKeyValueStore
           size == OriginalGetKeyValueStoreSize
           r == IF "size" \notin hooks THEN NullCall(mem)
                ELSE IF size > 0 /\ size < kMaxStoreSize
                THEN SpoofKeyValueStore(mem, size, g_binary_path)
                ELSE NoSpoof(mem, size)
       IN  /\ mem' = r.mem
           /\ pre_mem' = mem
           /\ last' = CallRecord("data", r, size, 0)
           /\ hook_trace' =
                 <<Ev("old_data", key_value_store)>>
                 \o (IF "size" \notin hooks THEN <<Ev("nullptr", 0)>>
                     ELSE <<Ev("old_size", size)>>)
                 \o SpoofEvent(r)
                 \o (IF r.fault THEN <<>> ELSE <<Ev("return", key_value_store)>>)
    /\ UNCHANGED <<key_value_store_size_, g_binary_path, sv, cmd_result, cmd_pc>>
    /\ UNCHANGED install_vars
    /\ UNCHANGED launcher_vars
    /\ UNCHANGED zygisk_vars

\* new__ZNK3art9OatHeader15ComputeChecksumEPj (lines 189-202)
ComputeChecksumHook ==
    /\ Running
    /\ cmd_pc = "idle"
    /\ Hooked("checksum")
    /\ LET size == key_value_store_size_
           r == SpoofKeyValueStore(mem, size, g_binary_path)
           checksum == IF r.fault THEN 0 ELSE OriginalComputeChecksum(r.mem, size)
       IN  /\ mem' = r.mem
           /\ pre_mem' = mem
           /\ last' = CallRecord("checksum", r, size, checksum)
           /\ hook_trace' =
                 SpoofEvent(r)
                 \o (IF r.fault THEN <<>>
                     ELSE <<Ev("old_checksum", checksum), Ev("return", 0)>>)
    /\ UNCHANGED <<key_value_store_size_, g_binary_path, sv, cmd_result, cmd_pc>>
    /\ UNCHANGED install_vars
    /\ UNCHANGED launcher_vars
    /\ UNCHANGED zygisk_vars

Next ==
    \/ GetKeyValueStoreSizeHook
    \/ GetKeyValueStoreHook
    \/ ComputeChecksumHook

Spec == Init /\ [][Next]_vars

(***************************************************************************)
(* process_cmd alone, on every command line of bounded length.             *)
(***************************************************************************)
CmdByte == {SP, F, K, A}

CmdLines == UNION {[1 .. n -> CmdByte] : n \in 0 .. MaxCmdLen}

InitCmd ==
    /\ sv \in CmdLines
    /\ g_binary_path \in Paths
    /\ cmd_result = <<>>
    /\ cmd_pc = "called"
    /\ key_value_store_size_ = 0
    /\ mem = [o \in {} |-> NUL]
    /\ pre_mem = mem
    /\ last = NoCall
    /\ hook_trace = <<>>
    /\ InstallIdle
    /\ LauncherIdle
    /\ ZygiskIdle

ProcessCmdReturns ==
    /\ cmd_pc = "called"
    /\ cmd_result' = process_cmd(sv, g_binary_path)
    /\ cmd_pc' = "returned"
    /\ UNCHANGED <<mem, key_value_store_size_, g_binary_path, pre_mem, last, sv,
                   install_vars, hook_trace>>
    /\ UNCHANGED launcher_vars
    /\ UNCHANGED zygisk_vars

NextCmd == ProcessCmdReturns

SpecCmd == InitCmd /\ [][NextCmd]_vars

(***************************************************************************)
(* The hooks on a record that holds the one dex2oat-cmdline entry, with    *)
(* any command line of bounded length as its value.                        *)
(***************************************************************************)
TargetValues == UNION {[1 .. n -> Byte \ {NUL}] : n \in 1 .. MaxRawSize}

TargetRecords ==
    {PackEntries(<<<<kDex2OatCmdLineKey, value>>>>, 1) \o Zeros(pad) :
        value \in TargetValues, pad \in 0 .. MaxPad}

InitTarget ==
    /\ \E rec \in TargetRecords, adj \in [1 .. AdjacentLen -> {NUL, K}] :
           /\ key_value_store_size_ = Len(rec)
           /\ mem = [o \in 0 .. (Len(rec) + AdjacentLen - 1) |-> (rec \o adj)[o + 1]]
    /\ g_binary_path \in Paths
    /\ pre_mem = mem
    /\ last = NoCall
    /\ hook_trace = <<>>
    /\ InitCmdIdle
    /\ AllInstalled
    /\ LauncherIdle
    /\ ZygiskIdle

SpecTarget == InitTarget /\ [][Next]_vars

(***************************************************************************)
(* The library from its constructor on: initialize (lines 218-254), one    *)
(* action for the lookup of the target and one for each batch of lsplt     *)
(* calls, and then the host's calls of the three entry points, each        *)
(* through its hook if lsplt installed it and unmodified if not. The       *)
(* record holds the dex2oat-cmdline entry as the launcher's exec produces  *)
(* it, with or without padding.                                            *)
(***************************************************************************)
InstallRecords ==
    {PackEntries(<<<<kDex2OatCmdLineKey, <<K, SP, F>>>>>>, 1) \o Zeros(pad) :
        pad \in 0 .. MaxPad}

InitInstall ==
    /\ \E rec \in InstallRecords :
           /\ key_value_store_size_ = Len(rec)
           /\ mem = [o \in 0 .. (Len(rec) + AdjacentLen - 1) |->
                        (rec \o [i \in 1 .. AdjacentLen |-> K])[o + 1]]
    /\ g_binary_path = <<>>
    /\ pre_mem = mem
    /\ last = NoCall
    /\ hook_trace = <<>>
    /\ InitCmdIdle
    /\ env_cmd \in EnvCmds
    /\ maps \in MapScans
    /\ dev = 0
    /\ inode = 0
    /\ init_pc = "locate"
    /\ pending = {}
    /\ hooks = {}
    /\ lsplt_calls = <<>>
    /\ LauncherIdle
    /\ ZygiskIdle

\* lines 220-243
LocateTarget ==
    /\ init_pc = "locate"
    /\ LET i == FirstTarget(maps)
           d == IF i = 0 THEN 0 ELSE maps[i].dev
       IN  /\ dev' = d
           /\ inode' = IF i = 0 THEN 0 ELSE maps[i].inode
           /\ g_binary_path' = BinaryPath(env_cmd, i # 0,
                                          IF i = 0 THEN <<>> ELSE maps[i].path)
           /\ init_pc' = IF TargetMissing(d) THEN "done" ELSE "register"
    /\ UNCHANGED <<mem, key_value_store_size_, pre_mem, last, sv, cmd_result,
                   cmd_pc, env_cmd, maps, pending, hooks, lsplt_calls, hook_trace>>
    /\ UNCHANGED launcher_vars
    /\ UNCHANGED zygisk_vars

LspltState == [pending |-> pending, hooks |-> hooks, calls |-> lsplt_calls]

\* lines 246-247
RegisterAccessorHooks ==
    /\ init_pc = "register"
    /\ \E ok_size, ok_data \in BOOLEAN :
          LET after == register_hook(register_hook(LspltState, "size", ok_size),
                                     "data", ok_data)
          IN  /\ pending' = after.pending
              /\ lsplt_calls' = after.calls
    /\ init_pc' = "commit"
    /\ UNCHANGED <<mem, key_value_store_size_, g_binary_path, pre_mem, last, sv,
                   cmd_result, cmd_pc, env_cmd, maps, dev, inode, hooks, hook_trace>>
    /\ UNCHANGED launcher_vars
    /\ UNCHANGED zygisk_vars

\* line 250
CommitAccessorHooks ==
    /\ init_pc = "commit"
    /\ \E resolved \in SUBSET pending, ok \in BOOLEAN :
          LET after == CommitHook(LspltState, resolved, ok)
          IN  /\ pending' = after.pending
              /\ hooks' = after.hooks
              /\ lsplt_calls' = after.calls
              /\ init_pc' = IF FallbackNeeded(ok) THEN "fallback" ELSE "done"
    /\ UNCHANGED <<mem, key_value_store_size_, g_binary_path, pre_mem, last, sv,
                   cmd_result, cmd_pc, env_cmd, maps, dev, inode, hook_trace>>
    /\ UNCHANGED launcher_vars
    /\ UNCHANGED zygisk_vars

\* line 251
RegisterChecksumHook ==
    /\ init_pc = "fallback"
    /\ \E ok \in BOOLEAN :
          LET after == register_hook(LspltState, "checksum", ok)
          IN  /\ pending' = after.pending
              /\ lsplt_calls' = after.calls
    /\ init_pc' = "fallback_commit"
    /\ UNCHANGED <<mem, key_value_store_size_, g_binary_path, pre_mem, last, sv,
                   cmd_result, cmd_pc, env_cmd, maps, dev, inode, hooks, hook_trace>>
    /\ UNCHANGED launcher_vars
    /\ UNCHANGED zygisk_vars

\* line 252, its value dropped
CommitFallbackHook ==
    /\ init_pc = "fallback_commit"
    /\ \E resolved \in SUBSET pending, ok \in BOOLEAN :
          LET after == CommitHook(LspltState, resolved, ok)
          IN  /\ pending' = after.pending
              /\ hooks' = after.hooks
              /\ lsplt_calls' = after.calls
    /\ init_pc' = "done"
    /\ UNCHANGED <<mem, key_value_store_size_, g_binary_path, pre_mem, last, sv,
                   cmd_result, cmd_pc, env_cmd, maps, dev, inode, hook_trace>>
    /\ UNCHANGED launcher_vars
    /\ UNCHANGED zygisk_vars

\* the host calls an entry point that has no hook: the original runs
UnhookedCall ==
    /\ Running
    /\ cmd_pc = "idle"
    /\ init_pc = "done"
    /\ \E h \in AllHooks \ hooks :
          LET size == OriginalGetKeyValueStoreSize
              checksum == IF h = "checksum" THEN OriginalComputeChecksum(mem, size)
                          ELSE 0
          IN  /\ last' = CallRecord("original", NoSpoof(mem, size), size, checksum)
              /\ hook_trace' = <<Ev(h, 0)>>
    /\ pre_mem' = mem
    /\ UNCHANGED <<mem, key_value_store_size_, g_binary_path, sv, cmd_result, cmd_pc>>
    /\ UNCHANGED install_vars
    /\ UNCHANGED launcher_vars
    /\ UNCHANGED zygisk_vars

NextInstall ==
    \/ LocateTarget
    \/ RegisterAccessorHooks
    \/ CommitAccessorHooks
    \/ RegisterChecksumHook
    \/ CommitFallbackHook
    \/ GetKeyValueStoreSizeHook
    \/ GetKeyValueStoreHook
    \/ ComputeChecksumHook
    \/ UnhookedCall

SpecInstall == InitInstall /\ [][NextInstall]_vars

(***************************************************************************)
(* The launcher (dex2oat.cpp). A C string is a sequence of pieces: a       *)
(* literal of the source is one piece, a formatted number is one piece for *)
(* each digit, and argv[0], which the code searches, is one piece for each *)
(* character.                                                              *)
(***************************************************************************)
SizeofInt == 4
SOL_SOCKET == 1
SCM_RIGHTS == 1

\* lines 33-37
LP_SELECT(lp32, lp64) == IF is_lp64 THEN lp64 ELSE lp32

\* a variant without the shift
ID_VEC_NoShift(is64, is_debug) == is64 + is_debug

\* line 39: ((is64) << 1) | (is_debug), both operands being 0 or 1
ID_VEC(is64, is_debug) == is64 * 2 + is_debug

\* sizeof(struct cmsghdr) and the CMSG_ macros of the C library, which
\* align to sizeof(long)
CmsgHdrSize == LP_SELECT(12, 16)
CMSG_ALIGN(len) ==
    ((len + LP_SELECT(4, 8) - 1) \div LP_SELECT(4, 8)) * LP_SELECT(4, 8)
CMSG_LEN(len) == CMSG_ALIGN(CmsgHdrSize) + len
CMSG_SPACE(len) == CMSG_ALIGN(CmsgHdrSize) + CMSG_ALIGN(len)

\* snprintf's %d
DigitChars == <<"0", "1", "2", "3", "4", "5", "6", "7", "8", "9">>

RECURSIVE DecimalDigits(_)
DecimalDigits(n) ==
    IF n < 10 THEN <<DigitChars[n + 1]>>
    ELSE DecimalDigits(n \div 10) \o <<DigitChars[(n % 10) + 1]>>

FormatInt(n) == IF n < 0 THEN <<"-">> \o DecimalDigits(-n) ELSE DecimalDigits(n)

\* strstr(haystack, needle) != NULL
StrStr(haystack, needle) ==
    \E i \in 1 .. (Len(haystack) - Len(needle) + 1) :
        SubSeq(haystack, i, i + Len(needle) - 1) = needle

Dex2oat == <<"d", "e", "x", "2", "o", "a", "t">>
Dex2oatd == Dex2oat \o <<"d">>

\* lines 128-129
linker_path ==
    LP_SELECT(<<"/apex/com.android.runtime/bin/linker">>,
              <<"/apex/com.android.runtime/bin/linker64">>)

\* line 131
stock_fd_path(fd) == <<"/proc/self/fd/">> \o FormatInt(fd)

\* line 142
ExtraFlag == <<"--inline-max-code-units=0">>

\* line 150: the value of the LD_PRELOAD entry
preload_str(p, fd) == <<"/proc/">> \o FormatInt(p) \o <<"/fd/">> \o FormatInt(fd)

\* the entries of exec_argv: a string, NULL, or what malloc left there
CStr(s) == [kind |-> "str", chars |-> s]
NullPtr == [kind |-> "null", chars |-> <<>>]
Uninit == [kind |-> "uninit", chars |-> <<>>]

\* a variant of the copy loop that starts at argv[0]
CopyArguments_FromZero(ea, av, argc) ==
    [i \in DOMAIN ea |-> IF 1 <= i /\ i <= argc THEN CStr(av[i - 1]) ELSE ea[i]]

\* lines 137-139: exec_argv[i + 1] = argv[i] for i in 1 .. argc-1
CopyArguments(ea, av, argc) ==
    [i \in DOMAIN ea |-> IF 2 <= i /\ i <= argc THEN CStr(av[i - 1]) ELSE ea[i]]

\* lines 125-143
BuildExecArgv(av, argc, fd) ==
    LET new_argc == argc + 2
        allocated == [i \in 0 .. new_argc |-> Uninit]
        head == [allocated EXCEPT ![0] = CStr(linker_path),
                                  ![1] = CStr(stock_fd_path(fd))]
        copied == CopyArguments(head, av, argc)
    IN  [copied EXCEPT ![new_argc - 1] = CStr(ExtraFlag), ![new_argc] = NullPtr]

\* unsetenv and putenv (lines 146, 151)
unsetenv(env, name) == [n \in DOMAIN env \ {name} |-> env[n]]
putenv(env, name, value) ==
    [n \in DOMAIN env \cup {name} |-> IF n = name THEN value ELSE env[n]]

\* the descriptor table: the kernel gives out the lowest free number
StdFds == [fd \in {0, 1, 2} |-> [kind |-> "std", id |-> 0]]

LowestFree(table) ==
    CHOOSE n \in 0 .. Cardinality(DOMAIN table) :
        n \notin DOMAIN table /\ \A k \in 0 .. (n - 1) : k \in DOMAIN table

OpenFd(table, fd, what) ==
    [f \in DOMAIN table \cup {fd} |-> IF f = fd THEN what ELSE table[f]]

\* a variant of close that leaves the descriptor open
CloseFd_Leak(table, fd) == table

CloseFd(table, fd) == [f \in DOMAIN table \ {fd} |-> table[f]]

\* the socket a descriptor refers to (0: none)
SockOf(table, fd) ==
    IF fd \in DOMAIN table /\ table[fd].kind = "socket" THEN table[fd].id ELSE 0

Syscall(op, fd, sock, ok, val) ==
    [op |-> op, conn |-> conn, fd |-> fd, sock |-> sock, ok |-> ok, val |-> val]

\* lines 105 and 115: the request code written on connection c
RequestCode(c) ==
    IF c = 1
    THEN ID_VEC(LP_SELECT(0, 1), IF StrStr(argv[0], Dex2oatd) THEN 1 ELSE 0)
    ELSE LP_SELECT(4, 5)

(***************************************************************************)
(* recvmsg as recv_fds calls it (lines 52-59): what msg and cmsgbuf hold   *)
(* when it returns. The peer may have sent no control message, a single    *)
(* descriptor, or a control message of another length, level or type       *)
(* (0 stands for a level other than SOL_SOCKET, 2 for SCM_CREDENTIALS);    *)
(* the data may arrive short. When recvmsg fails it leaves msg as the      *)
(* caller set it, and cmsgbuf, a local array that is never initialised,    *)
(* holds whatever the stack held: any header, and any data, the            *)
(* descriptor of the previous call of recv_fd included.                    *)
(***************************************************************************)
CmsgHeaders ==
    [cmsg_len : {CMSG_LEN(0), CMSG_LEN(SizeofInt)},
     cmsg_level : {SOL_SOCKET, 0},
     cmsg_type : {SCM_RIGHTS, 2}]

\* the control message is one SCM_RIGHTS message with one descriptor
SingleDescriptor(h) ==
    /\ h.cmsg_len = CMSG_LEN(SizeofInt)
    /\ h.cmsg_level = SOL_SOCKET
    /\ h.cmsg_type = SCM_RIGHTS

MsgAfter(rec, controllen, h, data, delivers) ==
    [rec |-> rec, msg_controllen |-> controllen, cmsg_len |-> h.cmsg_len,
     cmsg_level |-> h.cmsg_level, cmsg_type |-> h.cmsg_type, data |-> data,
     delivers |-> delivers]

StackGarbage == {-1, 0, 12} \cup (IF conn = 2 THEN {stock_fd} ELSE {})

RecvOutcomes(table) ==
    {MsgAfter(rec, 0, [cmsg_len |-> 0, cmsg_level |-> 0, cmsg_type |-> 0], 0, FALSE) :
        rec \in {0, SizeofInt}}
    \cup
    {MsgAfter(rec, CMSG_SPACE(h.cmsg_len - CMSG_LEN(0)), h,
              IF SingleDescriptor(h) THEN LowestFree(table) ELSE 0,
              SingleDescriptor(h)) :
        rec \in {2, SizeofInt}, h \in CmsgHeaders}
    \cup
    {MsgAfter(-1, CMSG_SPACE(SizeofInt), h, data, FALSE) :
        h \in CmsgHeaders, data \in StackGarbage}

\* recv_fds (lines 51-69); the value of xrecvmsg is not looked at
recv_fds(m, bufsz, cnt) ==
    IF \/ m.msg_controllen # bufsz
       \/ m.msg_controllen < CmsgHdrSize          \* CMSG_FIRSTHDR is NULL
       \/ m.cmsg_len # CMSG_LEN(SizeofInt * cnt)
       \/ m.cmsg_level # SOL_SOCKET
       \/ m.cmsg_type # SCM_RIGHTS
    THEN [null |-> TRUE, data |-> 0]
    ELSE [null |-> FALSE, data |-> m.data]

\* recv_fd (lines 71-80)
recv_fd(m) ==
    LET data == recv_fds(m, CMSG_SPACE(SizeofInt), 1)
    IN  IF data.null THEN -1 ELSE data.data

(***************************************************************************)
(* The state when main is entered.                                         *)
(***************************************************************************)
Argv0s == {Dex2oat, Dex2oatd, Dex2oat \o <<"6", "4">>,
           <<"/">> \o Dex2oatd \o <<"3", "2">>}

Arguments == {<<"-", "j">>, <<"x">>}

ArgVectors ==
    UNION {{[i \in 0 .. (argc - 1) |-> IF i = 0 THEN a0 ELSE rest[i]] :
               a0 \in Argv0s, rest \in [1 .. (argc - 1) -> Arguments]} :
           argc \in 1 .. MaxArgc}

Pids == {7, 1234}

Environments ==
    {[n \in names \cup {"PATH"} |-> <<"inherited">>] :
        names \in SUBSET {"LD_LIBRARY_PATH", "LD_PRELOAD"}}

HooksIdle ==
    /\ mem = <<>>
    /\ key_value_store_size_ = 0
    /\ g_binary_path = <<>>
    /\ pre_mem = mem
    /\ last = NoCall
    /\ hook_trace = <<>>
    /\ InitCmdIdle
    /\ InstallIdle

InitLauncher ==
    /\ argv \in ArgVectors
    /\ is_lp64 \in BOOLEAN
    /\ pid \in Pids
    /\ environ \in Environments
    /\ fd_table = StdFds
    /\ sock_fd = 0
    /\ stock_fd = 0
    /\ hooker_fd = 0
    /\ msg = NoMsg
    /\ exec_argv = <<>>
    /\ pc = "connect"
    /\ conn = 1
    /\ exit_status = 0
    /\ syscalls = <<>>
    /\ delivered = {}
    /\ HooksIdle
    /\ ZygiskIdle

(***************************************************************************)
(* main (lines 93-161), one action for each system call it waits on.       *)
(***************************************************************************)
argc == Cardinality(DOMAIN argv)

\* the values main returns: line 103 and 113, and line 160
ConnectFailureStatus == 1

\* a variant that returns the status of a connection failure
ExecveFailureStatus_AsConnect == ConnectFailureStatus

ExecveFailureStatus == 2

SocketsCreated ==
    Cardinality({i \in DOMAIN syscalls : syscalls[i].op = "socket" /\ syscalls[i].ok})

\* lines 99-104 and 110-114: socket and connect; either may fail
Connect ==
    /\ pc = "connect"
    /\ \E outcome \in {"connected", "no_socket", "refused"} :
          LET fd == IF outcome = "no_socket" THEN -1 ELSE LowestFree(fd_table)
              id == SocketsCreated + 1
              table == IF fd < 0 THEN fd_table
                       ELSE OpenFd(fd_table, fd, [kind |-> "socket", id |-> id])
          IN  /\ sock_fd' = fd
              /\ fd_table' = table
              /\ syscalls' = syscalls
                   \o <<Syscall("socket", fd, id, fd >= 0, 0),
                        Syscall("connect", fd, SockOf(table, fd),
                                outcome = "connected", 0)>>
              /\ IF outcome = "connected"
                 THEN pc' = "write_int" /\ exit_status' = exit_status
                 ELSE pc' = "exited" /\ exit_status' = ConnectFailureStatus
    /\ UNCHANGED <<argv, is_lp64, pid, environ, stock_fd, hooker_fd, msg,
                   exec_argv, conn, delivered>>
    /\ UNCHANGED hook_vars
    /\ UNCHANGED zygisk_vars

\* lines 105 and 115, write_int (lines 88-91)
WriteRequest ==
    /\ pc = "write_int"
    /\ syscalls' = IF sock_fd < 0 THEN syscalls
                   ELSE Append(syscalls,
                               Syscall("write", sock_fd, SockOf(fd_table, sock_fd),
                                       TRUE, RequestCode(conn)))
    /\ pc' = "recv_fd"
    /\ UNCHANGED <<argv, is_lp64, pid, environ, fd_table, sock_fd, stock_fd,
                   hooker_fd, msg, exec_argv, conn, exit_status, delivered>>
    /\ UNCHANGED hook_vars
    /\ UNCHANGED zygisk_vars

\* lines 106 and 116: recv_fd; a descriptor the peer passed is installed in
\* the table by the kernel
RecvFd ==
    /\ pc = "recv_fd"
    /\ \E m \in RecvOutcomes(fd_table) :
          /\ msg' = m
          /\ fd_table' = IF m.delivers
                         THEN OpenFd(fd_table, m.data, [kind |-> "file", id |-> conn])
                         ELSE fd_table
          /\ delivered' = IF m.delivers THEN delivered \cup {<<conn, m.data>>}
                          ELSE delivered
          /\ IF conn = 1
             THEN stock_fd' = recv_fd(m) /\ hooker_fd' = hooker_fd
             ELSE hooker_fd' = recv_fd(m) /\ stock_fd' = stock_fd
          /\ syscalls' = Append(syscalls,
                                Syscall("recvmsg", sock_fd, SockOf(fd_table, sock_fd),
                                        TRUE, 0))
    /\ pc' = "read_int"
    /\ UNCHANGED <<argv, is_lp64, pid, environ, sock_fd, exec_argv, conn,
                   exit_status>>
    /\ UNCHANGED hook_vars
    /\ UNCHANGED zygisk_vars

\* lines 107 and 117: read_int (lines 82-86), its value dropped
ReadStatus ==
    /\ pc = "read_int"
    /\ syscalls' = Append(syscalls,
                          Syscall("read", sock_fd, SockOf(fd_table, sock_fd), TRUE, 0))
    /\ msg' = NoMsg
    /\ pc' = "close"
    /\ UNCHANGED <<argv, is_lp64, pid, environ, fd_table, sock_fd, stock_fd,
                   hooker_fd, exec_argv, conn, exit_status, delivered>>
    /\ UNCHANGED hook_vars
    /\ UNCHANGED zygisk_vars

\* lines 108 and 118
CloseSocket ==
    /\ pc = "close"
    /\ syscalls' = Append(syscalls,
                          Syscall("close", sock_fd, SockOf(fd_table, sock_fd), TRUE, 0))
    /\ fd_table' = CloseFd(fd_table, sock_fd)
    /\ IF conn = 1
       THEN conn' = 2 /\ pc' = "connect"
       ELSE conn' = conn /\ pc' = "prepare"
    /\ UNCHANGED <<argv, is_lp64, pid, environ, sock_fd, stock_fd, hooker_fd,
                   msg, exec_argv, exit_status, delivered>>
    /\ UNCHANGED hook_vars
    /\ UNCHANGED zygisk_vars

\* lines 120-153: the argument vector and the environment
PrepareExec ==
    /\ pc = "prepare"
    /\ exec_argv' = BuildExecArgv(argv, argc, stock_fd)
    /\ environ' = putenv(unsetenv(environ, "LD_LIBRARY_PATH"),
                         "LD_PRELOAD", preload_str(pid, hooker_fd))
    /\ pc' = "execve"
    /\ UNCHANGED <<argv, is_lp64, pid, fd_table, sock_fd, stock_fd, hooker_fd,
                   msg, conn, exit_status, syscalls, delivered>>
    /\ UNCHANGED hook_vars
    /\ UNCHANGED zygisk_vars

\* lines 155-160: execve replaces the image, or fails and main returns 2
Execve ==
    /\ pc = "execve"
    /\ \E replaced \in BOOLEAN :
          /\ syscalls' = Append(syscalls, Syscall("execve", -1, 0, replaced, 0))
          /\ IF replaced
             THEN pc' = "replaced" /\ exit_status' = exit_status
                  /\ exec_argv' = exec_argv
             ELSE pc' = "exited" /\ exit_status' = ExecveFailureStatus
                  /\ exec_argv' = <<>>
    /\ UNCHANGED <<argv, is_lp64, pid, environ, fd_table, sock_fd, stock_fd,
                   hooker_fd, msg, conn, delivered>>
    /\ UNCHANGED hook_vars
    /\ UNCHANGED zygisk_vars

NextLauncher ==
    \/ Connect
    \/ WriteRequest
    \/ RecvFd
    \/ ReadStatus
    \/ CloseSocket
    \/ PrepareExec
    \/ Execve

SpecLauncher == InitLauncher /\ [][NextLauncher]_vars

(***************************************************************************)
(* The Zygisk module (module.cpp) and its Binder bridge (ipc_bridge.cpp).  *)
(* The Java runtime and the remote services are the environment: which     *)
(* classes and methods the runtime has, and what a service lookup, a       *)
(* transaction and a read of the reply return, are its choice at each      *)
(* call.                                                                   *)
(***************************************************************************)
\* the most lookups that fail in one runtime
MaxMissing == 2

\* one lookup of IPCBridge::Initialize: the member or local it assigns,
\* whether it looks up a class (the local is tested before the member is
\* assigned), whether the code tests the result, whether it is kept
Lookup(name, class, tested, member) ==
    [name |-> name, class |-> class, tested |-> tested, member |-> member]

\* the lookups of IPCBridge::Initialize in its order (ipc_bridge.cpp:157-235)
InitializeLookups ==
    << Lookup("service_manager_class_", TRUE, TRUE, TRUE),
       Lookup("get_service_method_", FALSE, TRUE, TRUE),
       Lookup("ibinder_class", TRUE, TRUE, FALSE),
       Lookup("transact_method_", FALSE, TRUE, TRUE),
       Lookup("binder_class_", TRUE, TRUE, TRUE),
       Lookup("binder_ctor_", FALSE, TRUE, TRUE),
       Lookup("parcel_class_", TRUE, TRUE, TRUE),
       Lookup("obtain_method_", FALSE, FALSE, TRUE),
       Lookup("recycle_method_", FALSE, FALSE, TRUE),
       Lookup("write_interface_token_method_", FALSE, FALSE, TRUE),
       Lookup("write_int_method_", FALSE, FALSE, TRUE),
       Lookup("write_string_method_", FALSE, FALSE, TRUE),
       Lookup("write_strong_binder_method_", FALSE, FALSE, TRUE),
       Lookup("read_exception_method_", FALSE, FALSE, TRUE),
       Lookup("read_strong_binder_method_", FALSE, FALSE, TRUE),
       Lookup("read_file_descriptor_method_", FALSE, FALSE, TRUE),
       Lookup("read_int_method_", FALSE, FALSE, TRUE),
       Lookup("read_long_method_", FALSE, FALSE, TRUE),
       Lookup("read_string_method_", FALSE, FALSE, TRUE),
       Lookup("parcel_fd_class_", TRUE, TRUE, TRUE),
       Lookup("detach_fd_method_", FALSE, TRUE, TRUE) >>

JniNames == {InitializeLookups[k].name : k \in DOMAIN InitializeLookups}

\* the members of IPCBridge that Initialize sets (ipc_bridge.h:130-158)
CachedMembers ==
    {InitializeLookups[k].name : k \in {j \in DOMAIN InitializeLookups :
                                            InitializeLookups[j].member}}

\* the lookups whose result Initialize tests
TestedNames ==
    {InitializeLookups[k].name : k \in {j \in DOMAIN InitializeLookups :
                                            InitializeLookups[j].tested}}

\* Initialize from its k-th lookup on; found is what the runtime has
RECURSIVE InitializeFrom(_, _, _)
InitializeFrom(k, cache, found) ==
    IF k > Len(InitializeLookups)
    THEN [initialized_ |-> TRUE, cached |-> cache]
    ELSE LET l == InitializeLookups[k]
             ok == l.name \in found
             stored == IF ~l.member THEN cache
                       ELSE IF ok THEN cache \cup {l.name}
                       ELSE IF l.class THEN cache
                       ELSE cache \ {l.name}
         IN  IF l.tested /\ ~ok
             THEN [initialized_ |-> FALSE, cached |-> stored]
             ELSE InitializeFrom(k + 1, stored, found)

\* IPCBridge::Initialize (ipc_bridge.cpp:147-239)
Initialize(init, cache, found) ==
    IF init
    THEN [initialized_ |-> TRUE, cached |-> cache]
    ELSE InitializeFrom(1, cache, found)

\* the sets of at most n names
RECURSIVE AtMost(_, _)
AtMost(names, n) ==
    IF n = 0 THEN {{}}
    ELSE AtMost(names, n - 1) \cup
         {m \cup {a} : m \in AtMost(names, n - 1), a \in names}

\* the runtimes in which at most MaxMissing lookups fail
JniRuntimes == {JniNames \ m : m \in AtMost(JniNames, MaxMissing)}

\* the runtimes that have every method of android.os.Parcel: the ones the
\* bridge's calls are followed in (a call through a null method ID is not
\* a call this model follows)
ParcelRuntimes == {JniNames \ m : m \in SUBSET TestedNames}

(***************************************************************************)
(* Initialize alone, called again and again in any runtime.                *)
(***************************************************************************)
\* the module after onLoad (module.cpp:215-223), the bridge as constructed
\* (ipc_bridge.h:125-179)
ModuleLoaded ==
    /\ should_inject_ = FALSE
    /\ is_manager_app_ = FALSE
    /\ allow_unload = FALSE
    /\ inject_class_loader_ = FALSE
    /\ obfuscation_map_ = <<>>
    /\ args = <<>>
    /\ zpc = "loaded"
    /\ events = <<>>
    /\ returned = <<>>
    /\ initialized_ = FALSE
    /\ cached = {}
    /\ attempt = 0

BinderIdle ==
    /\ g_last_failed_id = 0
    /\ threads = <<>>
    /\ calls = <<>>

InitInitialize ==
    /\ ModuleLoaded
    /\ BinderIdle
    /\ HooksIdle
    /\ LauncherIdle

\* IPCBridge::GetInstance().Initialize(env_) (module.cpp:260, 355)
CallInitialize ==
    /\ zpc = "loaded"
    /\ \E found \in JniRuntimes :
           LET r == Initialize(initialized_, cached, found)
           IN  /\ initialized_' = r.initialized_
               /\ cached' = r.cached
    /\ UNCHANGED <<returned, attempt>>
    /\ UNCHANGED module_vars
    /\ UNCHANGED binder_vars
    /\ UNCHANGED hook_vars
    /\ UNCHANGED launcher_vars

NextInitialize == CallInitialize

SpecInitialize == InitInitialize /\ [][NextInitialize]_vars

(***************************************************************************)
(* The calls of the bridge. Each is given what the environment answers and *)
(* yields what it returns (ret) and what it asked of the environment, in   *)
(* its order (ev). Java references are strings, "null" the null one.       *)
(***************************************************************************)
\* the most pairs in a reply to the obfuscation map request
MaxPairs == 2

NullRef == "null"

Did(op, arg) == [op |-> op, arg |-> arg]

\* kBridgeServiceName, kSystemServerBridgeServiceName (ipc_bridge.cpp:90-92)
kBridgeServiceName == "activity"

kSystemServerBridgeServiceName == "serial"

\* the transaction codes (ipc_bridge.cpp:95-97), by name
kBridgeTransactionCode == "bridge"

kDexTransactionCode == "dex"

kObfuscationMapTransactionCode == "map"

GetService(name) == Did("getService", name)

Transact(code) == Did("transact", code)

\* what the environment answers to RequestAppBinder: the rendezvous service,
\* whether the parcels and the heartbeat binder were made, the transaction's
\* result, whether readException threw, the binder read
AppAnswers ==
    {[service |-> NullRef, made |-> TRUE, success |-> FALSE, exception |-> FALSE,
      binder |-> NullRef],
     [service |-> "service", made |-> FALSE, success |-> FALSE,
      exception |-> FALSE, binder |-> NullRef]} \cup
    {[service |-> "service", made |-> TRUE, success |-> s, exception |-> x,
      binder |-> b] : s \in BOOLEAN, x \in BOOLEAN, b \in {NullRef, "app"}}

RequestAppBinder_Unguarded(init, a) ==
    IF a.service = NullRef \/ ~a.made
    THEN [ret |-> NullRef, ev |-> <<GetService(kBridgeServiceName)>>]
    ELSE [ret |-> IF a.success /\ ~a.exception THEN a.binder ELSE NullRef,
          ev |-> <<GetService(kBridgeServiceName),
                   Transact(kBridgeTransactionCode)>>]

\* IPCBridge::RequestAppBinder (ipc_bridge.cpp:241-311)
RequestAppBinder(init, a) ==
    IF ~init THEN [ret |-> NullRef, ev |-> <<>>]
    ELSE IF a.service = NullRef \/ ~a.made
    THEN [ret |-> NullRef, ev |-> <<GetService(kBridgeServiceName)>>]
    ELSE [ret |-> IF a.success /\ ~a.exception THEN a.binder ELSE NullRef,
          ev |-> <<GetService(kBridgeServiceName),
                   Transact(kBridgeTransactionCode)>>]

\* what the environment answers to RequestManagerBinderFromSystemServer
ManagerAnswers ==
    {[success |-> s, exception |-> x, binder |-> b] :
        s \in BOOLEAN, x \in BOOLEAN, b \in {NullRef, "manager"}}

\* IPCBridge::RequestManagerBinderFromSystemServer (ipc_bridge.cpp:342-377)
RequestManagerBinderFromSystemServer(a) ==
    [ret |-> IF a.success /\ ~a.exception THEN a.binder ELSE NullRef,
     ev |-> <<Transact(kBridgeTransactionCode)>>]

\* what the environment answers to FetchFrameworkDex: the transaction's
\* result, whether readException threw, whether a descriptor was read, and
\* what detachFd returned
DexAnswers ==
    {[success |-> FALSE, exception |-> FALSE, pfd |-> FALSE, fd |-> -1],
     [success |-> TRUE, exception |-> TRUE, pfd |-> FALSE, fd |-> -1],
     [success |-> TRUE, exception |-> FALSE, pfd |-> FALSE, fd |-> -1],
     [success |-> TRUE, exception |-> FALSE, pfd |-> TRUE, fd |-> -1],
     [success |-> TRUE, exception |-> FALSE, pfd |-> TRUE, fd |-> 23]}

\* the size read with the descriptor (ipc_bridge.cpp:409-410)
DexSize == 4096

\* IPCBridge::FetchFrameworkDex (ipc_bridge.cpp:379-414)
FetchFrameworkDex(init, binder, a) ==
    IF ~init \/ binder = NullRef THEN [ret |-> <<-1, 0>>, ev |-> <<>>]
    ELSE IF ~a.success \/ a.exception \/ ~a.pfd
    THEN [ret |-> <<-1, 0>>, ev |-> <<Transact(kDexTransactionCode)>>]
    ELSE [ret |-> <<a.fd, DexSize>>, ev |-> <<Transact(kDexTransactionCode)>>]

\* the keys the module looks up (module.cpp:201, ipc_bridge.cpp:534)
kCoreKey == "org.lsposed.lspd.core."

kServiceKey == "org.lsposed.lspd.service."

\* what readString returns: a string, or null when none can be read
ParcelStrings == {kCoreKey, kServiceKey, NullRef}

\* what the environment answers to FetchObfuscationMap: the transaction's
\* result, whether readException threw, the size read and the strings read
\* after it
MapAnswers ==
    {[success |-> FALSE, exception |-> FALSE, size |-> 0, strs |-> <<>>],
     [success |-> TRUE, exception |-> TRUE, size |-> 0, strs |-> <<>>],
     [success |-> TRUE, exception |-> FALSE, size |-> -1, strs |-> <<>>]} \cup
    UNION {{[success |-> TRUE, exception |-> FALSE, size |-> n, strs |-> s] :
                s \in [1 .. n -> ParcelStrings]} : n \in 0 .. 2 * MaxPairs}

RECURSIVE ReadPairs_KeepPartial(_, _, _, _)
ReadPairs_KeepPartial(strs, size, i, result_map) ==
    IF ~(i < size \div 2) THEN result_map
    ELSE LET key_jstr == strs[2 * i + 1]
             val_jstr == strs[2 * i + 2]
         IN  IF key_jstr = NullRef \/ val_jstr = NullRef
             THEN result_map
             ELSE ReadPairs_KeepPartial(strs, size, i + 1,
                            MapAssign(result_map, key_jstr, val_jstr))

\* the loop of FetchObfuscationMap from pair i on (ipc_bridge.cpp:445-462)
RECURSIVE ReadPairs(_, _, _, _)
ReadPairs(strs, size, i, result_map) ==
    IF ~(i < size \div 2) THEN result_map
    ELSE LET key_jstr == strs[2 * i + 1]
             val_jstr == strs[2 * i + 2]
         IN  IF key_jstr = NullRef \/ val_jstr = NullRef
             THEN EmptyMap
             ELSE ReadPairs(strs, size, i + 1,
                            MapAssign(result_map, key_jstr, val_jstr))

\* IPCBridge::FetchObfuscationMap (ipc_bridge.cpp:416-466)
FetchObfuscationMap(init, binder, a) ==
    IF ~init \/ binder = NullRef THEN [ret |-> EmptyMap, ev |-> <<>>]
    ELSE IF ~a.success \/ a.exception \/ a.size < 0 \/ a.size % 2 # 0
    THEN [ret |-> EmptyMap, ev |-> <<Transact(kObfuscationMapTransactionCode)>>]
    ELSE [ret |-> ReadPairs(a.strs, a.size, 0, EmptyMap),
          ev |-> <<Transact(kObfuscationMapTransactionCode)>>]

\* obfs_map.at(key) (module.cpp:201, ipc_bridge.cpp:534) throws
\* std::out_of_range when the map has no such key
AtThrows(m, key) == key \notin DOMAIN m

\* what the environment answers to HookBridge: whether the class, the two
\* methods and the symbol of ART were found
HookAnswers ==
    {[class |-> c, replace |-> r, backup |-> b, symbol |-> s] :
        c \in BOOLEAN, r \in BOOLEAN, b \in BOOLEAN, s \in BOOLEAN}

\* IPCBridge::HookBridge (ipc_bridge.cpp:525-585): "uninitialized", "throws",
\* "failed" or "installed"
HookBridge(init, m, a) ==
    IF ~init THEN "uninitialized"
    ELSE IF AtThrows(m, kServiceKey) THEN "throws"
    ELSE IF a.class /\ a.replace /\ a.backup /\ a.symbol THEN "installed"
    ELSE "failed"

(***************************************************************************)
(* The lifecycle callbacks (module.cpp:225-447) in one process: the host   *)
(* calls preAppSpecialize and then postAppSpecialize, or                   *)
(* preServerSpecialize and then postServerSpecialize. A callback is one    *)
(* action, except that postServerSpecialize is cut at each lookup and each *)
(* sleep of RequestSystemServerBinder, where the thread waits.             *)
(***************************************************************************)
\* the constants of module.cpp:24-38; MANAGER_UID is INJECTED_UID of
\* common/config.h, the shell's uid in the project's build
FIRST_ISOLATED_UID == 99000

LAST_ISOLATED_UID == 99999

FIRST_APP_ZYGOTE_ISOLATED_UID == 90000

LAST_APP_ZYGOTE_ISOLATED_UID == 98999

SHARED_RELRO_UID == 1037

PER_USER_RANGE == 100000

MANAGER_UID == 2000

kManagerName == "org.lsposed.manager"

Uids == {SHARED_RELRO_UID, MANAGER_UID, 10123,
         FIRST_APP_ZYGOTE_ISOLATED_UID - 1, FIRST_APP_ZYGOTE_ISOLATED_UID,
         LAST_ISOLATED_UID, PER_USER_RANGE + SHARED_RELRO_UID,
         PER_USER_RANGE + FIRST_ISOLATED_UID}

\* the host's arguments of preAppSpecialize, and whether NewIntArray made the
\* manager's GID array (it is called for the manager only)
AppArgs ==
    {a \in [uid : Uids, nice_name : {kManagerName, "app"}, gids_made : BOOLEAN,
            app_data_dir : BOOLEAN, is_child_zygote : {"null", "false", "true"}] :
        ~a.gids_made => a.uid = MANAGER_UID /\ a.nice_name = kManagerName}

\* the test of module.cpp:281-283
IsIsolated(app_id) ==
    \/ app_id >= FIRST_ISOLATED_UID /\ app_id <= LAST_ISOLATED_UID
    \/ app_id >= FIRST_APP_ZYGOTE_ISOLATED_UID /\ app_id <= LAST_APP_ZYGOTE_ISOLATED_UID
    \/ app_id = SHARED_RELRO_UID

\* the tests of module.cpp:267-287
IsTarget(a) ==
    /\ a.app_data_dir
    /\ a.is_child_zygote # "true"
    /\ ~IsIsolated(a.uid % PER_USER_RANGE)

InitZygisk ==
    /\ ModuleLoaded
    /\ BinderIdle
    /\ HooksIdle
    /\ LauncherIdle

\* VectorModule::preAppSpecialize (module.cpp:225-292)
PreAppSpecialize ==
    /\ zpc = "loaded"
    /\ \E a \in AppArgs, found \in ParcelRuntimes :
           LET manager == a.uid = MANAGER_UID /\ a.nice_name = kManagerName
               r == Initialize(initialized_, cached, found)
           IN  /\ is_manager_app_' = manager
               /\ IF manager /\ ~a.gids_made
                  THEN /\ should_inject_' = FALSE
                       /\ args' = a
                       /\ UNCHANGED <<initialized_, cached>>
                  ELSE /\ should_inject_' = IsTarget(a)
                       /\ args' = IF manager
                                  THEN [a EXCEPT !.nice_name = "com.android.shell"]
                                  ELSE a
                       /\ initialized_' = r.initialized_
                       /\ cached' = r.cached
    /\ zpc' = "app"
    /\ UNCHANGED <<allow_unload, inject_class_loader_, obfuscation_map_, events>>
    /\ UNCHANGED <<returned, attempt>>
    /\ UNCHANGED binder_vars
    /\ UNCHANGED hook_vars
    /\ UNCHANGED launcher_vars

\* VectorModule::preServerSpecialize (module.cpp:349-356)
PreServerSpecialize ==
    /\ zpc = "loaded"
    /\ should_inject_' = TRUE
    /\ \E found \in ParcelRuntimes :
           LET r == Initialize(initialized_, cached, found)
           IN  /\ initialized_' = r.initialized_
               /\ cached' = r.cached
    /\ args' = [server |-> TRUE]
    /\ zpc' = "server"
    /\ UNCHANGED <<is_manager_app_, allow_unload, inject_class_loader_,
                   obfuscation_map_, events>>
    /\ UNCHANGED <<returned, attempt>>
    /\ UNCHANGED binder_vars
    /\ UNCHANGED hook_vars
    /\ UNCHANGED launcher_vars

SetAllowUnload_Always(unload) == TRUE

\* VectorModule::SetAllowUnload (module.cpp:433-447), api_ set by onLoad:
\* whether DLCLOSE_MODULE_LIBRARY is set
SetAllowUnload(unload) == unload

\* a post callback ends: "returned", or "terminated" when it threw
PostEnds(how, ev, rets, map, loader, unload) ==
    /\ zpc' = how
    /\ events' = ev
    /\ returned' = rets
    /\ obfuscation_map_' = map
    /\ inject_class_loader_' = loader
    /\ allow_unload' = unload
    /\ args' = <<>>
    /\ UNCHANGED <<should_inject_, is_manager_app_>>
    /\ UNCHANGED <<initialized_, cached, attempt>>
    /\ UNCHANGED binder_vars
    /\ UNCHANGED hook_vars
    /\ UNCHANGED launcher_vars

\* a post callback from FetchFrameworkDex on (module.cpp:317-346, 402-430)
InjectFramework(server, binder, ev, rets) ==
    \E d \in DexAnswers :
        LET dex == FetchFrameworkDex(initialized_, binder, d)
            ev1 == ev \o dex.ev
            rets1 == Append(rets, Did("FetchFrameworkDex", dex.ret))
        IN  IF dex.ret[1] < 0
            THEN PostEnds("returned", ev1, rets1, obfuscation_map_,
                          inject_class_loader_, SetAllowUnload(TRUE))
            ELSE \E m \in MapAnswers, loaded \in BOOLEAN,
                    h \in IF server THEN HookAnswers
                          ELSE {CHOOSE one \in HookAnswers : TRUE} :
                     LET obfs_map == FetchObfuscationMap(initialized_, binder, m)
                         ev2 == ev1 \o obfs_map.ev
                         rets2 == Append(rets1, Did("FetchObfuscationMap",
                                                    obfs_map.ret))
                         loader == inject_class_loader_ \/ loaded
                         hook == IF server
                                 THEN HookBridge(initialized_, obfs_map.ret, h)
                                 ELSE "none"
                         ev3 == IF server
                                THEN ev2 \o <<Did("at", kServiceKey),
                                              Did("HookBridge", hook)>>
                                ELSE ev2
                         ev4 == IF loader
                                THEN Append(ev3, Did("at", kCoreKey)) ELSE ev3
                     IN  IF hook = "throws"
                         THEN PostEnds("terminated",
                                       ev2 \o <<Did("at", kServiceKey)>>, rets2,
                                       obfs_map.ret, loader, FALSE)
                         ELSE IF loader /\ AtThrows(obfs_map.ret, kCoreKey)
                         THEN PostEnds("terminated", ev4, rets2, obfs_map.ret,
                                       loader, FALSE)
                         ELSE PostEnds("returned",
                                       Append(ev4, Did("FindAndCall", "forkCommon")),
                                       rets2, obfs_map.ret, loader,
                                       SetAllowUnload(FALSE))

\* VectorModule::postAppSpecialize (module.cpp:294-347)
PostAppSpecialize ==
    /\ zpc = "app"
    /\ IF ~should_inject_
       THEN PostEnds("returned", <<>>, <<>>, obfuscation_map_,
                     inject_class_loader_, SetAllowUnload(TRUE))
       ELSE \E a \in AppAnswers :
                LET binder == RequestAppBinder(initialized_, a)
                    rets == <<Did("RequestAppBinder", binder.ret)>>
                IN  IF binder.ret = NullRef
                    THEN PostEnds("returned", binder.ev, rets, obfuscation_map_,
                                  inject_class_loader_, SetAllowUnload(TRUE))
                    ELSE InjectFramework(FALSE, binder.ret, binder.ev, rets)

\* the loop test and the test before the sleep of RequestSystemServerBinder
\* (ipc_bridge.cpp:325, 332)
LoopContinues(i) == i < 3

SleepsAfter_EveryFailure(i) == LoopContinues(i)

SleepsAfter(i) == i < 2

\* RequestSystemServerBinder is left for postServerSpecialize
RequestReturns(binder, ev, i) ==
    /\ returned' = <<Did("RequestSystemServerBinder", binder)>>
    /\ events' = ev
    /\ attempt' = i
    /\ zpc' = "resume"

\* VectorModule::postServerSpecialize (module.cpp:358-388) up to the first
\* lookup of RequestSystemServerBinder (ipc_bridge.cpp:313-325)
PostServerSpecialize ==
    /\ zpc = "server"
    /\ IF ~should_inject_
       THEN PostEnds("returned", <<>>, <<>>, obfuscation_map_,
                     inject_class_loader_, SetAllowUnload(TRUE))
       ELSE IF ~initialized_
       THEN PostEnds("returned", <<>>,
                     <<Did("RequestSystemServerBinder", NullRef)>>,
                     obfuscation_map_, inject_class_loader_, SetAllowUnload(TRUE))
       ELSE /\ zpc' = "lookup"
            /\ attempt' = 0
            /\ UNCHANGED <<returned, initialized_, cached>>
            /\ UNCHANGED <<should_inject_, is_manager_app_, allow_unload,
                           inject_class_loader_, obfuscation_map_, args, events>>
            /\ UNCHANGED binder_vars
            /\ UNCHANGED hook_vars
            /\ UNCHANGED launcher_vars

\* one lookup of RequestSystemServerBinder (ipc_bridge.cpp:326-332)
LookupSystemServerBinder ==
    /\ zpc = "lookup"
    /\ \E binder \in {NullRef, "system"} :
           LET ev == Append(events, GetService(kSystemServerBridgeServiceName))
           IN  IF binder # NullRef
               THEN RequestReturns(binder, ev, attempt)
               ELSE IF SleepsAfter(attempt)
               THEN /\ zpc' = "sleep"
                    /\ events' = ev
                    /\ UNCHANGED <<returned, attempt>>
               ELSE IF LoopContinues(attempt + 1)
               THEN /\ zpc' = "lookup"
                    /\ events' = ev
                    /\ attempt' = attempt + 1
                    /\ UNCHANGED returned
               ELSE RequestReturns(NullRef, ev, attempt + 1)
    /\ UNCHANGED <<should_inject_, is_manager_app_, allow_unload,
                   inject_class_loader_, obfuscation_map_, args>>
    /\ UNCHANGED <<initialized_, cached>>
    /\ UNCHANGED binder_vars
    /\ UNCHANGED hook_vars
    /\ UNCHANGED launcher_vars

\* the sleep of RequestSystemServerBinder (ipc_bridge.cpp:333-335) and the
\* loop's ++i
SleepBeforeRetry ==
    /\ zpc = "sleep"
    /\ LET ev == Append(events, Did("sleep", "1s"))
       IN  IF LoopContinues(attempt + 1)
           THEN /\ zpc' = "lookup"
                /\ events' = ev
                /\ attempt' = attempt + 1
                /\ UNCHANGED returned
           ELSE RequestReturns(NullRef, ev, attempt + 1)
    /\ UNCHANGED <<should_inject_, is_manager_app_, allow_unload,
                   inject_class_loader_, obfuscation_map_, args>>
    /\ UNCHANGED <<initialized_, cached>>
    /\ UNCHANGED binder_vars
    /\ UNCHANGED hook_vars
    /\ UNCHANGED launcher_vars

\* VectorModule::postServerSpecialize from the return of
\* RequestSystemServerBinder on (module.cpp:389-431)
ResumeServerSpecialize ==
    /\ zpc = "resume"
    /\ LET system_binder == returned[1].arg
       IN  IF system_binder = NullRef
           THEN PostEnds("returned", events, returned, obfuscation_map_,
                         inject_class_loader_, SetAllowUnload(TRUE))
           ELSE \E a \in ManagerAnswers :
                    LET manager_binder == RequestManagerBinderFromSystemServer(a)
                        effective_binder == IF manager_binder.ret # NullRef
                                            THEN manager_binder.ret
                                            ELSE system_binder
                    IN  InjectFramework(TRUE, effective_binder,
                            events \o manager_binder.ev,
                            Append(returned,
                                   Did("RequestManagerBinderFromSystemServer",
                                       manager_binder.ret)))

NextZygisk ==
    \/ PreAppSpecialize
    \/ PostAppSpecialize
    \/ PreServerSpecialize
    \/ PostServerSpecialize
    \/ LookupSystemServerBinder
    \/ SleepBeforeRetry
    \/ ResumeServerSpecialize

SpecZygisk == InitZygisk /\ [][NextZygisk]_vars

\* the thread in postServerSpecialize runs: getService and sleep_for return
SpecZygiskLive ==
    /\ SpecZygisk
    /\ WF_vars(LookupSystemServerBinder)
    /\ WF_vars(SleepBeforeRetry)

(***************************************************************************)
(* FetchObfuscationMap alone, on every binder and every reply of bounded   *)
(* size; the map returned is stored as the callbacks store it              *)
(* (module.cpp:324-325, 409-410).                                          *)
(***************************************************************************)
InitFetch ==
    /\ should_inject_ = TRUE
    /\ is_manager_app_ = FALSE
    /\ allow_unload = FALSE
    /\ inject_class_loader_ = FALSE
    /\ obfuscation_map_ = <<>>
    /\ args \in [binder : {NullRef, "app"}, answer : MapAnswers]
    /\ zpc = "fetch"
    /\ events = <<>>
    /\ returned = <<>>
    /\ \E found \in ParcelRuntimes :
           LET r == Initialize(FALSE, {}, found)
           IN  initialized_ = r.initialized_ /\ cached = r.cached
    /\ attempt = 0
    /\ BinderIdle
    /\ HooksIdle
    /\ LauncherIdle

CallFetchObfuscationMap ==
    /\ zpc = "fetch"
    /\ LET obfs_map == FetchObfuscationMap(initialized_, args.binder, args.answer)
       IN  /\ returned' = <<Did("FetchObfuscationMap", obfs_map.ret)>>
           /\ events' = obfs_map.ev
           /\ obfuscation_map_' = obfs_map.ret
    /\ zpc' = "fetched"
    /\ UNCHANGED <<should_inject_, is_manager_app_, allow_unload,
                   inject_class_loader_, args>>
    /\ UNCHANGED <<initialized_, cached, attempt>>
    /\ UNCHANGED binder_vars
    /\ UNCHANGED hook_vars
    /\ UNCHANGED launcher_vars

NextFetch == CallFetchObfuscationMap

SpecFetch == InitFetch /\ [][NextFetch]_vars

(***************************************************************************)
(* The JNI hook (ipc_bridge.cpp:468-523) once HookBridge has installed it: *)
(* the Binder threads of the process call CallBooleanMethodV through it,   *)
(* each at its own pace. A step of a thread ends at its next access to     *)
(* g_last_failed_id, the one variable the threads share.                   *)
(***************************************************************************)
\* the most hooked calls made in all
MaxCalls == 3

BinderThreads == {"binder:1", "binder:2"}

\* the initial value of g_last_failed_id, ~0 (ipc_bridge.cpp:19)
NoFailedId == -1

\* BinderCaller::GetId (ipc_bridge.cpp:60-70) of the calling processes: 0
\* when no IPCThreadState is at hand, else the caller's uid and pid in one
\* number, here 1 and 2 for two callers
CallerIds == {0, 1, 2}

\* the hooked calls: the caller, the method ID, the transaction code among
\* the arguments and what the Java handler would answer
HookedCalls ==
    {c \in [caller : CallerIds, methodId : {"execTransact", "other"},
            code : {kBridgeTransactionCode, "other"}, answer : BOOLEAN] :
        ~c.answer => c.methodId = "execTransact" /\ c.code = kBridgeTransactionCode}

NoHookedCall ==
    [caller |-> 0, methodId |-> "other", code |-> "other", answer |-> TRUE]

\* a thread outside the hook
ThreadIdle ==
    [pc |-> "idle", call |-> NoHookedCall, how |-> "none", handler |-> 0,
     original |-> 0, passed |-> NoHookedCall]

NoCounts == [made |-> 0, bypassed |-> [c \in CallerIds |-> 0],
             recorded |-> [c \in CallerIds |-> 0]]

InitHook ==
    /\ g_last_failed_id = NoFailedId
    /\ threads = [t \in BinderThreads |-> ThreadIdle]
    /\ calls = NoCounts
    /\ should_inject_ = TRUE
    /\ is_manager_app_ = FALSE
    /\ allow_unload = FALSE
    /\ inject_class_loader_ = TRUE
    /\ obfuscation_map_ = <<>>
    /\ args = <<>>
    /\ zpc = "hooked"
    /\ events = <<>>
    /\ returned = <<>>
    /\ initialized_ = TRUE
    /\ cached = CachedMembers
    /\ attempt = 0
    /\ HooksIdle
    /\ LauncherIdle

Intercepts_AnyMethod(methodId, code) == code = kBridgeTransactionCode

\* the tests of ipc_bridge.cpp:513 and 479
Intercepts(methodId, code) ==
    methodId = "execTransact" /\ code = kBridgeTransactionCode

\* the thread returns from the hook after calling the original
\* CallBooleanMethodV with the arguments it was given
CallsOriginal(t, how) ==
    [threads EXCEPT ![t].pc = "returned", ![t].how = how,
                    ![t].original = 1, ![t].passed = threads[t].call]

\* CallBooleanMethodV_Hook up to the load of g_last_failed_id
\* (ipc_bridge.cpp:499-505)
HookEnter(t) ==
    /\ zpc = "hooked"
    /\ threads[t].pc \in {"idle", "returned"}
    /\ calls.made < MaxCalls
    /\ \E c \in HookedCalls :
           threads' = [threads EXCEPT ![t] =
               [ThreadIdle EXCEPT
                   !.call = c,
                   !.pc = IF c.caller # 0 /\ c.caller = g_last_failed_id
                          THEN "consume" ELSE "dispatch"]]
    /\ calls' = [calls EXCEPT !.made = @ + 1]
    /\ UNCHANGED g_last_failed_id
    /\ UNCHANGED <<module_vars, bridge_vars, hook_vars, launcher_vars>>

\* the store of ~0 and the call of the original (ipc_bridge.cpp:507-508)
HookConsume(t) ==
    /\ threads[t].pc = "consume"
    /\ g_last_failed_id' = NoFailedId
    /\ threads' = CallsOriginal(t, "bypassed")
    /\ calls' = [calls EXCEPT !.bypassed[threads[t].call.caller] = @ + 1]
    /\ UNCHANGED <<module_vars, bridge_vars, hook_vars, launcher_vars>>

\* the rest of the hook when the call is not bypassed (ipc_bridge.cpp:513-522)
\* with ExecTransact_Replace up to its store (lines 468-490)
HookDispatch(t) ==
    /\ threads[t].pc = "dispatch"
    /\ LET c == threads[t].call
       IN  threads' =
               IF Intercepts(c.methodId, c.code)
               THEN [threads EXCEPT
                        ![t].handler = 1,
                        ![t].how = "handled",
                        ![t].pc = IF ~c.answer /\ c.caller # 0
                                  THEN "record" ELSE "returned"]
               ELSE CallsOriginal(t, "original")
    /\ UNCHANGED <<g_last_failed_id, calls>>
    /\ UNCHANGED <<module_vars, bridge_vars, hook_vars, launcher_vars>>

\* the store of the caller's ID (ipc_bridge.cpp:491-494)
HookRecord(t) ==
    /\ threads[t].pc = "record"
    /\ g_last_failed_id' = threads[t].call.caller
    /\ threads' = [threads EXCEPT ![t].pc = "returned"]
    /\ calls' = [calls EXCEPT !.recorded[threads[t].call.caller] = @ + 1]
    /\ UNCHANGED <<module_vars, bridge_vars, hook_vars, launcher_vars>>

NextHook ==
    \E t \in BinderThreads :
        \/ HookEnter(t)
        \/ HookConsume(t)
        \/ HookDispatch(t)
        \/ HookRecord(t)

SpecHook == InitHook /\ [][NextHook]_vars

(***************************************************************************)
(* The claims about SpoofKeyValueStore. "The last call" is the hook call   *)
(* recorded in last; pre_mem is the memory it was given.                   *)
(***************************************************************************)
Spoofed == last.hook \in {"data", "checksum"} /\ last.how # "skipped"

\* C1: SpoofKeyValueStore writes only to offsets in [0, size_limit), on the
\* in-place path and on the rebuild path, whatever the record, the size and
\* the length of the replacement path.
C1_WritesWithinSizeLimit ==
    Spoofed => \A o \in last.wr : 0 <= o /\ o < last.size_limit

\* C2: when a key or value terminator is not found before base+size_limit,
\* the call leaves every byte unchanged, also when an eligible entry was
\* parsed before the truncated one.
C2_TruncatedRecordUntouched ==
    (Spoofed /\ last.trunc \in {"key", "value"}) => mem = pre_mem

\* C3: SpoofKeyValueStore reads no byte at an offset >= size_limit, also
\* while it skips the zero padding after a padded entry.
C3_ReadsWithinSizeLimit ==
    Spoofed => \A o \in last.rd : o < last.size_limit

(***************************************************************************)
(* The data model of the record (KeyValueRecord): entries key, NUL, value, *)
(* NUL packed from the base, keys distinct and not empty, and only zero    *)
(* bytes from the end of the last entry to the declared size.              *)
(***************************************************************************)
\* the entries from offset p on, up to the first key position that holds a
\* NUL or lies at the declared size n
RECURSIVE ReadEntries(_, _, _)
ReadEntries(m, n, p) ==
    IF p >= n \/ m[p] = NUL THEN [ok |-> TRUE, entries |-> <<>>, end |-> p]
    ELSE LET key_end == MemChr(m, p, n)
             value_end == MemChr(m, key_end + 1, n)
         IN  IF key_end = NotFound \/ value_end = NotFound
             THEN [ok |-> FALSE, entries |-> <<>>, end |-> p]
             ELSE LET rest == ReadEntries(m, n, value_end + 1)
                  IN  [ok |-> rest.ok,
                       entries |-> <<[key |-> BytesAt(m, p, key_end),
                                      value |-> BytesAt(m, key_end + 1, value_end),
                                      value_end |-> value_end]>> \o rest.entries,
                       end |-> rest.end]

WellFormed(m, n) ==
    LET r == ReadEntries(m, n, 0)
    IN  /\ r.ok
        /\ \A o \in r.end .. (n - 1) : m[o] = NUL
        /\ \A i, j \in 1 .. Len(r.entries) :
               r.entries[i].key = r.entries[j].key => i = j

\* the entries of a well-formed record, as <<key, value>> pairs
EntriesOf(m, n) ==
    LET r == ReadEntries(m, n, 0)
    IN  [i \in 1 .. Len(r.entries) |-> <<r.entries[i].key, r.entries[i].value>>]

\* the end of the last entry
EntriesEnd(m, n) == ReadEntries(m, n, 0).end

\* the entries with the eligible target value replaced by the sanitized one
WithSanitizedTarget(entries, path) ==
    [i \in 1 .. Len(entries) |->
        IF Eligible(entries[i][1], entries[i][2])
        THEN <<entries[i][1], process_cmd(entries[i][2], path)>>
        ELSE entries[i]]

InPlace == Spoofed /\ last.how = "inplace"
Rebuilt == Spoofed /\ last.how = "rebuild"
OriginalCapacity == last.value_end - last.value_start

(***************************************************************************)
(* process_cmd on a command line of the shape of the spec's scenario:      *)
(* single-spaced tokens t0 t1 args... flag, the flag only at the end.      *)
(***************************************************************************)
TokenAt(s, i, t) ==
    /\ i + Len(t) - 1 <= Len(s)
    /\ SubSeq(s, i, i + Len(t) - 1) = t
    /\ (i = 1 \/ s[i - 1] = SP)
    /\ (i + Len(t) - 1 = Len(s) \/ s[i + Len(t)] = SP)

SpacesOf(s) == {i \in 1 .. Len(s) : s[i] = SP}

FirstSpace(s) == CHOOSE i \in SpacesOf(s) : \A j \in SpacesOf(s) : i <= j

SecondSpace(s) ==
    CHOOSE i \in SpacesOf(s) \ {FirstSpace(s)} :
        \A j \in SpacesOf(s) \ {FirstSpace(s)} : i <= j

FlagStart(s) == Len(s) - Len(kParamToRemove) + 1

ScenarioShape(s) ==
    /\ Len(s) > 0 /\ s[1] # SP
    /\ \A i \in SpacesOf(s) : i < Len(s) /\ s[i + 1] # SP
    /\ Cardinality(SpacesOf(s)) >= 2
    /\ \A i \in 1 .. Len(s) : TokenAt(s, i, kParamToRemove) <=> i = FlagStart(s)

\* C4 as written: the linker path and the fd path (the first two tokens) are
\* replaced by P and the flag with its leading space is removed, so the
\* result is P followed by what lies between the second token and the flag.
C4_FirstTwoTokensReplaced ==
    (cmd_pc = "returned" /\ ScenarioShape(sv)) =>
        cmd_result = g_binary_path
                       \o SubSeq(sv, SecondSpace(sv), FlagStart(sv) - 2)

\* C4 amended: only the first token is replaced by P; the second token (the
\* fd path of the scenario) and the arguments are kept, and the flag with
\* its leading space is removed.
C4_FirstTokenReplacedFlagRemoved ==
    (cmd_pc = "returned" /\ ScenarioShape(sv)) =>
        cmd_result = g_binary_path
                       \o SubSeq(sv, FirstSpace(sv), FlagStart(sv) - 2)

C4_Witness ==
    /\ cmd_pc = "returned"
    /\ ScenarioShape(sv)
    /\ Cardinality(SpacesOf(sv)) = 3
    /\ Len(cmd_result) > Len(g_binary_path)

InBounds == \A o \in last.wr : o < last.size_limit

\* C5: after a rebuild of a well-formed record, the record is the exact
\* concatenation of all original entries, in their order, none dropped or
\* merged, only the target's value sanitized; what is left of the declared
\* size is zero padding. (Stated for the calls that wrote inside the
\* record, so that it does not rest on C1.)
C5_RebuiltRecordIsExactConcatenation ==
    (Rebuilt /\ InBounds /\ WellFormed(pre_mem, last.size_limit)) =>
        LET expected == PackEntries(WithSanitizedTarget(
                            EntriesOf(pre_mem, last.size_limit), g_binary_path), 1)
        IN  BytesAt(mem, 0, last.size_limit)
              = expected \o Zeros(last.size_limit - Len(expected))

\* C6: when a rebuild makes the record shorter, the header's size field is
\* the old size minus the number of bytes removed.
C6_SizeFieldReducedByRemovedBytes ==
    LET old_len == EntriesEnd(pre_mem, last.size_limit)
        new_len == Len(SerializeKeys(last.new_store, DOMAIN last.new_store))
    IN  (Rebuilt /\ WellFormed(pre_mem, last.size_limit) /\ new_len < old_len) =>
            key_value_store_size_ = last.size_limit - (old_len - new_len)

\* C7: an in-place edit writes only inside the original value span, the
\* value a reader then finds there is no longer than the original one, and
\* the header's size field is what it was.
C7_InPlaceWithinCapacitySizeKept ==
    InPlace =>
        /\ last.wr \subseteq last.value_start .. (last.value_end - 1)
        /\ MemChr(mem, last.value_start, last.value_end + 1) # NotFound
        /\ key_value_store_size_ = last.size_limit

C7_Witness ==
    /\ InPlace
    /\ WellFormed(pre_mem, last.size_limit)
    /\ Len(last.cleaned_cmd) > OriginalCapacity
    /\ last.wr # {}

\* C8: after an in-place edit the original value span holds the complete
\* sanitized value, left-aligned, and then only zero bytes.
C8_InPlaceHoldsCompleteValue ==
    InPlace =>
        /\ Len(last.cleaned_cmd) <= OriginalCapacity
        /\ BytesAt(mem, last.value_start, last.value_end)
             = last.cleaned_cmd \o Zeros(OriginalCapacity - Len(last.cleaned_cmd))

\* C9: an in-place edit changes no byte outside the target's value span.
C9_InPlaceChangesOnlyValueSpan ==
    InPlace =>
        \A o \in DOMAIN mem :
            (o < last.value_start \/ o >= last.value_end) => mem[o] = pre_mem[o]

C9_Witness ==
    /\ InPlace
    /\ WellFormed(pre_mem, last.size_limit)
    /\ Len(EntriesOf(pre_mem, last.size_limit)) > 1
    /\ mem # pre_mem

\* C10: after a call on a well-formed record, the record is well-formed:
\* its entries fit in the declared size and only zero bytes follow them.
\* (Stated for the calls that wrote inside the record, so that it does not
\* rest on C1.)
C10_RecordStaysWellFormed ==
    (Spoofed /\ ~last.fault /\ InBounds /\ WellFormed(pre_mem, last.size_limit)) =>
        WellFormed(mem, key_value_store_size_)

(***************************************************************************)
(* Two calls in a row, and the record read back after a call.              *)
(***************************************************************************)
\* C11: a call of SpoofKeyValueStore on the buffer that a successful call
\* (in-place or rebuild) left, with the same size_limit, returns false and
\* changes no byte. (Stated for first calls that wrote inside the record and
\* for second calls that returned, so that it rests neither on C1 nor on
\* C3.)
C11_SecondSpoofIsNoOp ==
    [][(Spoofed /\ last.ret /\ ~last.fault /\ InBounds /\ Spoofed' /\ ~last'.fault) =>
           (~last'.ret /\ mem' = mem)]_vars

\* the key -> value pairs of the entries of a record
EntryPairs(m, n) == {EntriesOf(m, n)[i] : i \in 1 .. Len(EntriesOf(m, n))}

\* C12: the entries read from the buffer after a rebuild, over the same
\* declared size, are the entries of the record before it with the target's
\* value sanitized: the same value for every key, and no further entry.
\* (Stated for the calls that wrote inside the record, so that it does not
\* rest on C1.)
C12_RebuiltRecordReadsBack ==
    (Rebuilt /\ InBounds /\ WellFormed(pre_mem, last.size_limit)) =>
        LET before == WithSanitizedTarget(EntriesOf(pre_mem, last.size_limit),
                                          g_binary_path)
        IN  EntryPairs(mem, last.size_limit) = {before[i] : i \in 1 .. Len(before)}

\* the record's entries are packed up to its last byte, which is the
\* terminator of an eligible target value
TargetAtEnd(m, n) ==
    LET r == ReadEntries(m, n, 0)
    IN  /\ r.ok
        /\ r.entries # <<>>
        /\ LET e == r.entries[Len(r.entries)]
           IN  Eligible(e.key, e.value) /\ e.value_end = n - 1

\* C13: when the target value's terminator is the last byte of the record,
\* the entry has no padding: the call reads no byte at size_limit or after
\* and takes the rebuild path; and the in-place path is only ever taken
\* for a value whose terminator lies before the last byte.
C13_TerminatorAtEndForcesRebuild ==
    /\ (Spoofed /\ TargetAtEnd(pre_mem, last.size_limit)) =>
           /\ last.how = "rebuild" /\ last.ret
           /\ \A o \in last.rd : o < last.size_limit
    /\ InPlace => last.value_end + 1 < last.size_limit

C13_Witness ==
    /\ Rebuilt
    /\ TargetAtEnd(pre_mem, last.size_limit)
    /\ pre_mem[last.size_limit] = NUL
    /\ last.size_limit - 1 \in last.rd

HasEligibleEntry(m, n) == \E e \in EntryPairs(m, n) : Eligible(e[1], e[2])

\* C14: a call on a well-formed record changes memory if and only if an
\* entry of the record has the key dex2oat-cmdline and a value that
\* contains the flag; when no entry is eligible, the call returns false
\* and leaves every byte as it was.
C14_ModifiesIffEligible ==
    (Spoofed /\ WellFormed(pre_mem, last.size_limit)) =>
        /\ (mem # pre_mem) <=> HasEligibleEntry(pre_mem, last.size_limit)
        /\ ~HasEligibleEntry(pre_mem, last.size_limit) =>
               (~last.fault /\ ~last.ret /\ mem = pre_mem)

(***************************************************************************)
(* The claims about the launcher.                                          *)
(***************************************************************************)
ConnectFailed(c) ==
    \E i \in DOMAIN syscalls :
        syscalls[i].op = "connect" /\ syscalls[i].conn = c /\ ~syscalls[i].ok

\* recv_fd has returned on connection c
RecvDone(c) ==
    \E i \in DOMAIN syscalls : syscalls[i].op = "recvmsg" /\ syscalls[i].conn = c

ExecveCalled == \E i \in DOMAIN syscalls : syscalls[i].op = "execve"

\* C15: when the first connection fails the launcher exits with a non-zero
\* status and does not call execve; when the second connection fails, be
\* it that connect fails or that no descriptor is received, the launcher
\* does not exit before it has called execve. (The second part is stated
\* for the runs whose first handshake passed the compiler's descriptor, so
\* that it does not rest on C16.)
C15_OnlyFirstConnectionFatal ==
    /\ ConnectFailed(1) => (pc = "exited" /\ exit_status # 0 /\ ~ExecveCalled)
    /\ (/\ <<1, stock_fd>> \in delivered
        /\ ConnectFailed(2) \/ (RecvDone(2) /\ hooker_fd = -1)) =>
           (pc = "exited" => ExecveCalled)

\* C16: once recv_fd has returned -1 for the compiler's descriptor, the
\* launcher builds no argument vector and calls no execve, and the status
\* it exits with is not zero.
C16_NoExecWithoutStockFd ==
    (RecvDone(1) /\ stock_fd = -1) =>
        /\ exec_argv = <<>>
        /\ ~ExecveCalled
        /\ pc = "exited" => exit_status # 0

\* the value recv_fd has just returned
LastRecvFd == IF conn = 1 THEN stock_fd ELSE hooker_fd

\* C17: recv_fd returns -1 whenever the receive failed or came short, or
\* the control message is not one single-descriptor SCM_RIGHTS message of
\* the full length; a value other than -1 is a descriptor the peer passed
\* in this message.
C17_RecvFdReturnsOnlyDeliveredFd ==
    pc = "read_int" =>
        /\ (\/ msg.rec < SizeofInt
            \/ msg.msg_controllen # CMSG_SPACE(SizeofInt)
            \/ ~SingleDescriptor(msg)) => LastRecvFd = -1
        /\ LastRecvFd # -1 => (msg.delivers /\ <<conn, LastRecvFd>> \in delivered)

\* the number a string of decimal digits stands for
RECURSIVE ParseDigits(_, _)
ParseDigits(chars, acc) ==
    IF chars = <<>> THEN acc
    ELSE LET d == CHOOSE k \in 0 .. 9 : DigitChars[k + 1] = Head(chars)
         IN  ParseDigits(Tail(chars), acc * 10 + d)

ParseInt(chars) ==
    IF chars # <<>> /\ Head(chars) = "-" THEN 0 - ParseDigits(Tail(chars), 0)
    ELSE ParseDigits(chars, 0)

C19_EnvironmentAtExec ==
    (pc \in {"execve", "replaced"} /\ <<1, stock_fd>> \in delivered) =>
        /\ "LD_LIBRARY_PATH" \notin DOMAIN environ
        /\ "LD_PRELOAD" \in DOMAIN environ
        /\ \E d \in delivered :
               /\ d[1] = 2
               /\ environ["LD_PRELOAD"]
                    = <<"/proc/">> \o FormatInt(pid) \o <<"/fd/">> \o FormatInt(d[2])

\* the socket calls of one handshake, in their order
HandshakeCalls == <<"socket", "connect", "write", "recvmsg", "read", "close">>

SocketCalls ==
    SelectSeq(syscalls, LAMBDA c : \E k \in DOMAIN HandshakeCalls : HandshakeCalls[k] = c.op)

IsPrefix(a, b) == Len(a) <= Len(b) /\ SubSeq(b, 1, Len(a)) = a

OpenSockets == {fd \in DOMAIN fd_table : fd_table[fd].kind = "socket"}

\* C20: the launcher's socket calls are, in this order, connect, write of
\* the request code, receive, read and close on a first socket and then
\* the same on a second socket, which is created only after the first is
\* closed; when execve is called both handshakes are complete and no
\* socket is open.
C20_TwoHandshakesThenExec ==
    /\ IsPrefix([i \in DOMAIN SocketCalls |-> SocketCalls[i].op],
                HandshakeCalls \o HandshakeCalls)
    /\ \A i \in DOMAIN SocketCalls :
           SocketCalls[i].ok =>
               SocketCalls[i].sock = (IF i <= Len(HandshakeCalls) THEN 1 ELSE 2)
    /\ Cardinality(OpenSockets) <= 1
    /\ pc \in {"execve", "replaced"} =>
           /\ Len(SocketCalls) = 2 * Len(HandshakeCalls)
           /\ OpenSockets = {}

C20_Witness ==
    /\ pc = "replaced"
    /\ Len(SocketCalls) = 2 * Len(HandshakeCalls)
    /\ Cardinality(delivered) = 2

\* C21: from the moment a descriptor is received until execve, the launcher
\* does not close it (every close is of the socket of the handshake), and
\* at execve each received descriptor is referenced exactly once: the
\* compiler's by exec_argv[1] and not by LD_PRELOAD, the hook library's by
\* LD_PRELOAD and not by exec_argv[1].
C21_ReceivedDescriptorsKeptAndUsedOnce ==
    /\ \A d \in delivered :
           /\ d[2] \in DOMAIN fd_table
           /\ fd_table[d[2]] = [kind |-> "file", id |-> d[1]]
    /\ \A i \in DOMAIN syscalls :
           syscalls[i].op = "close" => syscalls[i].sock # 0
    /\ pc \in {"execve", "replaced"} =>
           \A d \in delivered :
               /\ (exec_argv[1] = CStr(<<"/proc/self/fd/">> \o FormatInt(d[2])))
                     <=> d[1] = 1
               /\ (environ["LD_PRELOAD"]
                     = <<"/proc/">> \o FormatInt(pid) \o <<"/fd/">> \o FormatInt(d[2]))
                     <=> d[1] = 2

\* C22: main goes on after execve only when execve failed; it then frees
\* exec_argv and returns 2, which is not the status 1 of a connection
\* failure; when execve succeeded nothing of main runs any more.
C22_ExecveFailureStatus ==
    /\ \A i \in DOMAIN syscalls : syscalls[i].op = "execve" => i = Len(syscalls)
    /\ pc = "replaced" =>
           /\ ExecveCalled /\ syscalls[Len(syscalls)].ok
           /\ exit_status = 0
           /\ exec_argv # <<>>
    /\ (pc = "exited" /\ ExecveCalled) =>
           /\ ~syscalls[Len(syscalls)].ok
           /\ exec_argv = <<>>
           /\ exit_status = 2
    /\ (pc = "exited" /\ ~ExecveCalled) =>
           /\ ConnectFailed(1) \/ ConnectFailed(2)
           /\ exit_status = 1

C22_Witness ==
    /\ pc = "exited"
    /\ ExecveCalled
    /\ ~syscalls[Len(syscalls)].ok
    /\ exit_status = 2

(***************************************************************************)
(* The claims about the installation of the hooks and about the hooks.     *)
(***************************************************************************)
CallNames == [i \in DOMAIN lsplt_calls |-> <<lsplt_calls[i].fn, lsplt_calls[i].symbol>>]

AccessorBatch ==
    <<<<"RegisterHook", "size">>, <<"RegisterHook", "data">>, <<"CommitHook", "">>>>

FallbackBatch == <<<<"RegisterHook", "checksum">>, <<"CommitHook", "">>>>

\* C23: the calls of lsplt are, in this order, the registration of the size
\* hook, the registration of the data hook and a commit; the checksum hook
\* is registered, and a second commit made, if and only if that first
\* commit failed, and never before it.
C23_AccessorsFirstChecksumOnFailure ==
    /\ IsPrefix(CallNames, AccessorBatch \o FallbackBatch)
    /\ Len(lsplt_calls) > Len(AccessorBatch) => ~lsplt_calls[Len(AccessorBatch)].ok
    /\ "checksum" \in (pending \cup hooks) => Len(lsplt_calls) > Len(AccessorBatch)
    /\ (init_pc = "done" /\ dev # 0) =>
           IF lsplt_calls[Len(AccessorBatch)].ok
           THEN CallNames = AccessorBatch
           ELSE CallNames = AccessorBatch \o FallbackBatch

C23_Witness ==
    /\ init_pc = "done"
    /\ CallNames = AccessorBatch \o FallbackBatch
    /\ ~lsplt_calls[3].ok
    /\ "checksum" \in hooks
    /\ last.hook = "checksum"

NoTargetMapping == \A i \in DOMAIN maps : ~PathContainsTarget(maps[i].path)

\* C24: when no mapping has a path that contains "bin/dex2oat", initialize
\* registers no hook and commits nothing, and every entry point of the host
\* runs unmodified.
C24_NoMappingNoHooks ==
    (NoTargetMapping /\ init_pc = "done") =>
        /\ lsplt_calls = <<>>
        /\ pending = {}
        /\ hooks = {}
        /\ last.hook \in {"none", "original"}
        /\ mem = pre_mem

C24_Witness ==
    /\ NoTargetMapping
    /\ maps # <<>>
    /\ env_cmd.set
    /\ init_pc = "done"
    /\ last.hook = "original"
    /\ hook_trace = <<Ev("checksum", 0)>>

\* C25: whatever subset of the three hooks is installed, every intercepted
\* call returns: no hook calls an old_ pointer that is null, and no call
\* ends the host.
C25_PartialHookSetTolerated ==
    last.hook \in AllHooks =>
        /\ \A i \in DOMAIN hook_trace : hook_trace[i].op # "nullptr"
        /\ ~last.fault
        /\ hook_trace[Len(hook_trace)].op = "return"

TraceOps == [i \in DOMAIN hook_trace |-> hook_trace[i].op]

\* C26: a call of the checksum hook calls SpoofKeyValueStore, which
\* returns, true or false, before the original routine is called; the
\* original routine is called exactly once, and the checksum it computes
\* is the one of the bytes as the spoof left them.
C26_ChecksumAfterSpoofOnce ==
    last.hook = "checksum" =>
        /\ TraceOps = <<"SpoofKeyValueStore", "old_checksum", "return">>
        /\ hook_trace[1].val = (IF last.ret THEN 1 ELSE 0)
        /\ hook_trace[2].val = OriginalComputeChecksum(mem, last.size_limit)
        /\ last.checksum = hook_trace[2].val

\* C27: a call of the data hook returns the pointer that the original
\* accessor returned, after the spoof if there is one; when the original
\* size accessor reports 0, or 64 KiB or more, it neither reads nor writes
\* the record.
C27_DataHookReturnsOriginalPointer ==
    last.hook = "data" =>
        /\ TraceOps \in {<<"old_data", "old_size", "return">>,
                         <<"old_data", "old_size", "SpoofKeyValueStore", "return">>}
        /\ hook_trace[Len(hook_trace)].val = hook_trace[1].val
        /\ hook_trace[2].val = key_value_store_size_
        /\ (key_value_store_size_ = 0 \/ key_value_store_size_ >= 65536) =>
               /\ Len(hook_trace) = 3
               /\ mem = pre_mem
               /\ last.rd = {} /\ last.wr = {}

\* the value a reader of the record finds under dex2oat-cmdline
StoredCmdLine(m, n) ==
    LET es == EntriesOf(m, n)
        i == CHOOSE i \in 1 .. Len(es) :
                 /\ es[i][1] = kDex2OatCmdLineKey
                 /\ \A j \in 1 .. (i - 1) : es[j][1] # kDex2OatCmdLineKey
    IN  es[i][2]

\* C28: after a call that returned true, the value stored under
\* dex2oat-cmdline does not contain the flag as a substring, whatever
\* eligible value was there, one whose flag text is part of a longer token
\* included. (Stated for the calls that wrote inside the record, so that
\* it does not rest on C1.)
C28_FlagSubstringGone ==
    (Spoofed /\ last.ret /\ ~last.fault /\ InBounds) =>
        /\ \E e \in EntryPairs(mem, last.size_limit) : e[1] = kDex2OatCmdLineKey
        /\ ~ContainsParam(StoredCmdLine(mem, last.size_limit))

\* the tokens of a string, read off its characters: a token starts at a
\* character that is not a space and follows a space or nothing, and ends
\* before the next space
TokenStarts(s) == {i \in 1 .. Len(s) : s[i] # SP /\ (i = 1 \/ s[i - 1] = SP)}

TokenEnd(s, i) ==
    CHOOSE j \in i .. Len(s) :
        /\ \A x \in i .. j : s[x] # SP
        /\ (j = Len(s) \/ s[j + 1] = SP)

TokenList(s) ==
    [k \in 1 .. Cardinality(TokenStarts(s)) |->
        LET i == CHOOSE i \in TokenStarts(s) :
                     Cardinality({j \in TokenStarts(s) : j < i}) = k - 1
        IN  SubSeq(s, i, TokenEnd(s, i))]

\* C29: process_cmd(v, p) is made of the tokens of v, the first of them
\* replaced by p and then every token equal to the flag removed, with one
\* space between two tokens and none before the first or after the last;
\* when v has no token the result is the empty string.
C29_ProcessCmdDefinition ==
    cmd_pc = "returned" =>
        LET tokens == TokenList(sv)
            replaced == [k \in DOMAIN tokens |-> IF k = 1 THEN g_binary_path
                                                 ELSE tokens[k]]
            kept == SelectSeq(replaced, LAMBDA t : t # kParamToRemove)
        IN  /\ TokenList(cmd_result) = kept
            /\ cmd_result # <<>> =>
                   cmd_result[1] # SP /\ cmd_result[Len(cmd_result)] # SP
            /\ \A i \in 1 .. (Len(cmd_result) - 1) :
                   ~(cmd_result[i] = SP /\ cmd_result[i + 1] = SP)
            /\ tokens = <<>> => cmd_result = <<>>

C29_Witness ==
    /\ cmd_pc = "returned"
    /\ \E i \in 1 .. (Len(sv) - 1) : sv[i] = SP /\ sv[i + 1] = SP
    /\ \E k \in 2 .. Len(TokenList(sv)) : TokenList(sv)[k] = kParamToRemove
    /\ \E k \in 2 .. Len(TokenList(sv)) :
           /\ TokenList(sv)[k] # kParamToRemove
           /\ ContainsParam(TokenList(sv)[k])
    /\ Len(TokenList(cmd_result)) = 2

\* the command line that the last call put in the place of the target's
SubstitutedValue ==
    IF last.how = "inplace" THEN last.cleaned_cmd
    ELSE last.new_store[kDex2OatCmdLineKey]

FirstToken(s) == SplitBySpace(s, 1, <<>>, <<>>)[1]

\* C30 as written: the path substituted is the path of the mapping that
\* contains "bin/dex2oat" whenever there is one, and the value of
\* DEX2OAT_CMD only when there is none.
C30_MappingPathFirst ==
    (Spoofed /\ last.ret) =>
        FirstToken(SubstitutedValue)
          = (IF NoTargetMapping THEN env_cmd.value ELSE maps[FirstTarget(maps)].path)

\* C30 amended: the path substituted is the value of DEX2OAT_CMD whenever
\* that variable is set to a string that is not empty, and the path of the
\* first mapping that contains "bin/dex2oat" only when it is unset or empty.
C30_EnvironmentPathFirst ==
    (Spoofed /\ last.ret) =>
        /\ ~NoTargetMapping
        /\ FirstToken(SubstitutedValue)
             = (IF env_cmd.set /\ env_cmd.value # <<>> THEN env_cmd.value
                ELSE maps[FirstTarget(maps)].path)

C30_Witness ==
    /\ Spoofed /\ last.ret
    /\ Len(maps) = 2
    /\ PathContainsTarget(maps[1].path) /\ PathContainsTarget(maps[2].path)
    /\ maps[1].path # maps[2].path
    /\ env_cmd.set /\ env_cmd.value # <<>>
    /\ FirstToken(SubstitutedValue) = env_cmd.value

(***************************************************************************)
(* The claim about the launcher's request codes.                           *)
(***************************************************************************)
WritesOn(c) == {i \in DOMAIN syscalls : syscalls[i].op = "write" /\ syscalls[i].conn = c}

\* C31: the code written on the first connection is 2 * is64bit + is_debug,
\* a value in 0 .. 3, is_debug being 1 if and only if argv[0] contains
\* "dex2oatd"; the code written on the second connection is 4 on a 32-bit
\* build and 5 on a 64-bit build; the two codes of a run differ.
C31_RequestCodes ==
    /\ \A i \in WritesOn(1) :
           /\ syscalls[i].val \in 0 .. 3
           /\ syscalls[i].val \div 2 = (IF is_lp64 THEN 1 ELSE 0)
           /\ (syscalls[i].val % 2 = 1) <=>
                  \E k \in 1 .. Len(argv[0]) :
                      /\ k + 7 <= Len(argv[0])
                      /\ SubSeq(argv[0], k, k + 7)
                           = <<"d", "e", "x", "2", "o", "a", "t", "d">>
    /\ \A i \in WritesOn(2) : syscalls[i].val = (IF is_lp64 THEN 5 ELSE 4)
    /\ \A i \in WritesOn(1), j \in WritesOn(2) : syscalls[i].val # syscalls[j].val

C31_Witness ==
    /\ pc = "replaced"
    /\ \E i \in WritesOn(1) : syscalls[i].val = 3
    /\ \E j \in WritesOn(2) : syscalls[j].val = 5
    /\ Head(argv[0]) = "/"

(***************************************************************************)
(* The claims about the Zygisk module and its bridge.                      *)
(***************************************************************************)
\* C38: IPCBridge::Initialize sets initialized_ to true only if every JNI
\* class and method ID it caches for later use is non-null, the method IDs of
\* android.os.Parcel included.
C38_InitializedOnlyWithEveryId == initialized_ => CachedMembers \subseteq cached

\* the post callback has ended, by returning or by an uncaught exception
PostEnded == zpc \in {"returned", "terminated"}

\* what the call of the bridge named fn returned in the post callback
ReturnsOf(fn) == {returned[k].arg : k \in {j \in DOMAIN returned : returned[j].op = fn}}

BinderNotObtained ==
    \/ NullRef \in ReturnsOf("RequestAppBinder")
    \/ NullRef \in ReturnsOf("RequestSystemServerBinder")

DexFetchFailed == \E r \in ReturnsOf("FetchFrameworkDex") : r[1] < 0

HandedOff == \E k \in DOMAIN events : events[k] = Did("FindAndCall", "forkCommon")

\* C32: postAppSpecialize and postServerSpecialize set DLCLOSE_MODULE_LIBRARY
\* on exactly the paths on which the process was not marked, the binder was
\* not obtained or the DEX fetch failed, and on no path that reached the
\* forkCommon hand-off.
C32_UnloadExactlyWhenNotInjected ==
    PostEnded =>
        /\ allow_unload <=> (~should_inject_ \/ BinderNotObtained \/ DexFetchFailed)
        /\ HandedOff => ~allow_unload

C32_Witness ==
    /\ zpc = "returned"
    /\ allow_unload
    /\ DexFetchFailed
    /\ "manager" \in ReturnsOf("RequestManagerBinderFromSystemServer")

\* C33: after preAppSpecialize should_inject_ is true iff the process has an
\* app data directory, is not a child zygote and its app id, uid mod 100000,
\* is neither in 90000..99999 nor 1037 (the two flags are reset at the start
\* of the call: is_manager_app_ is true only for the manager).
C33_InjectIffTarget ==
    zpc = "app" =>
        /\ should_inject_ <=>
               /\ args.app_data_dir
               /\ args.is_child_zygote # "true"
               /\ (args.uid % 100000) \notin 90000 .. 99999
               /\ (args.uid % 100000) # 1037
        /\ is_manager_app_ => args.uid = MANAGER_UID

\* C37: when the fetch of the obfuscation map fails or returns an empty map,
\* postAppSpecialize and postServerSpecialize end without an uncaught
\* exception: no key that the map lacks is looked up in it.
C37_EmptyMapNoMissingKeyLookup ==
    (PostEnded /\ \E m \in ReturnsOf("FetchObfuscationMap") : DOMAIN m = {}) =>
        /\ zpc # "terminated"
        /\ \A k \in DOMAIN events :
               events[k].op = "at" => events[k].arg \in DOMAIN obfuscation_map_

InRequest == zpc \in {"lookup", "sleep", "resume"}

Lookups == {k \in DOMAIN events : events[k].op = "getService"}

Sleeps == {k \in DOMAIN events : events[k].op = "sleep"}

\* RequestSystemServerBinder so far: lookups and sleeps in turn, a lookup
\* first, at most 3 lookups and 2 sleeps; a sleep follows a failed lookup
\* that was not the third; the function returns right after a lookup, and
\* returns null only after the third
RequestBounded ==
    InRequest =>
        /\ Cardinality(Lookups) <= 3
        /\ Cardinality(Sleeps) <= 2
        /\ \A k \in DOMAIN events : k \in Lookups <=> k % 2 = 1
        /\ \A k \in DOMAIN events : k \in Sleeps <=> k % 2 = 0
        /\ zpc = "lookup" => Len(events) % 2 = 0
        /\ zpc = "sleep" => Len(events) \in Lookups /\ Cardinality(Lookups) < 3
        /\ zpc = "resume" =>
               /\ Len(events) \in Lookups
               /\ Cardinality(Lookups) = Cardinality(Sleeps) + 1
               /\ returned[1].arg = NullRef => Cardinality(Lookups) = 3

AsksEnvironment ==
    \E k \in DOMAIN events : events[k].op \in {"getService", "transact"}

\* C39: no service lookup and no Binder transaction is issued while
\* initialized_ is false: RequestAppBinder and RequestSystemServerBinder return
\* null, FetchFrameworkDex returns {-1, 0}, FetchObfuscationMap returns an
\* empty map, HookBridge installs nothing, and
\* RequestManagerBinderFromSystemServer is not reached.
C39_NothingIssuedUninitialized ==
    /\ ~initialized_ =>
           /\ ~AsksEnvironment
           /\ ReturnsOf("RequestAppBinder") \subseteq {NullRef}
           /\ ReturnsOf("RequestSystemServerBinder") \subseteq {NullRef}
           /\ ReturnsOf("RequestManagerBinderFromSystemServer") = {}
    /\ \A binder \in {NullRef, "app"} :
           /\ \A a \in AppAnswers :
                  RequestAppBinder(FALSE, a) = [ret |-> NullRef, ev |-> <<>>]
           /\ \A a \in DexAnswers :
                  FetchFrameworkDex(FALSE, binder, a) = [ret |-> <<-1, 0>>, ev |-> <<>>]
           /\ \A a \in MapAnswers :
                  FetchObfuscationMap(FALSE, binder, a) = [ret |-> EmptyMap, ev |-> <<>>]
           /\ \A a \in HookAnswers, m \in {EmptyMap, obfuscation_map_} :
                  HookBridge(FALSE, m, a) = "uninitialized"

C39_Witness ==
    /\ ~initialized_
    /\ zpc = "returned"
    /\ should_inject_
    /\ allow_unload
    /\ ReturnsOf("RequestAppBinder") = {NullRef}

\* the reply holds size/2 pairs that can all be read
PairsReadable(a) ==
    /\ a.success /\ ~a.exception
    /\ a.size >= 0 /\ a.size % 2 = 0
    /\ \A k \in 1 .. a.size : a.strs[k] # NullRef

\* the map of the pairs of the reply, a later pair replacing an earlier one
\* of the same key
MapOfPairs(a) ==
    [key \in {a.strs[2 * i - 1] : i \in 1 .. a.size \div 2} |->
        LET j == CHOOSE i \in 1 .. a.size \div 2 :
                     /\ a.strs[2 * i - 1] = key
                     /\ \A l \in (i + 1) .. a.size \div 2 : a.strs[2 * l - 1] # key
        IN  a.strs[2 * j]]

\* C40: FetchObfuscationMap is all-or-nothing: it returns an empty map when
\* the bridge is uninitialized, the binder is null, the transaction or the
\* remote call fails, the size read is negative or odd, or a key or value
\* cannot be read; otherwise the map of exactly size/2 pairs read in order.
C40_MapAllOrNothing ==
    zpc = "fetched" =>
        obfuscation_map_ =
            IF initialized_ /\ args.binder # NullRef /\ PairsReadable(args.answer)
            THEN MapOfPairs(args.answer)
            ELSE EmptyMap

C40_Witness ==
    /\ zpc = "fetched"
    /\ DOMAIN obfuscation_map_ = {kCoreKey, kServiceKey}
    /\ args.answer.strs[1] = kServiceKey

\* C34: under any interleaving of hooked calls on concurrent Binder threads,
\* a failure recorded in g_last_failed_id for a caller lets at most one later
\* hooked call of that caller bypass the interception, and no call of another
\* caller: a caller's calls have bypassed it no more often than failures of
\* that caller were recorded.
C34_FailureConsumedOnce ==
    \A c \in CallerIds : calls.bypassed[c] <= calls.recorded[c]

\* C35: a hooked CallBooleanMethodV call is answered by the Java handler,
\* the original not invoked, iff the method is Binder.execTransact, the code
\* is the bridge transaction code and the call is not bypassed; every other
\* call invokes the original exactly once with the arguments given and
\* returns its result.
C35_HandlerOrOriginal ==
    \A t \in BinderThreads :
        threads[t].pc = "returned" =>
            LET c == threads[t].call
                handled == /\ c.methodId = "execTransact"
                           /\ c.code = kBridgeTransactionCode
                           /\ threads[t].how # "bypassed"
            IN  IF handled
                THEN threads[t].handler = 1 /\ threads[t].original = 0
                ELSE /\ threads[t].handler = 0
                     /\ threads[t].original = 1
                     /\ threads[t].passed = c

C35_Witness ==
    \E t \in BinderThreads :
        /\ threads[t].pc = "returned"
        /\ threads[t].how = "bypassed"
        /\ threads[t].call.methodId = "execTransact"
        /\ threads[t].call.code = kBridgeTransactionCode
        /\ threads[t].original = 1

====
